---------------------------- MODULE Spec2Model ----------------------------
(***************************************************************************)
(* Model of the stocks backend: the valuation service (DCF calculator,     *)
(* sensitivity matrix, FCF projector), the cache-refresh policy of the     *)
(* company controller and the full-refresh transaction on the database.    *)
(*                                                                         *)
(* JavaScript numbers are modelled as extended rationals [n, d]: d > 0 is   *)
(* the exact quotient n/d in lowest terms, d = 0 is a non-finite value      *)
(* (n = 1: Infinity, n = -1: -Infinity, n = 0: NaN).  The format has a     *)
(* largest finite value, MaxValue (Number.MAX_VALUE, scaled down): a         *)
(* result of *, / or + beyond it is Infinity or -Infinity.  Rounding error   *)
(* of the binary floating point format is not modelled.                      *)
(***************************************************************************)
EXTENDS Integers, Sequences, FiniteSets, TLC

VARIABLES
    dcfInputs,      \* argument of calculateDCFValuation
    dcfOutcome,     \* what the call did: pending, a result, or a thrown Error
    sensInputs,     \* arguments of generateSensitivityAnalysis
    sensOutcome,    \* pending, the returned matrix, or a thrown Error
    policyCompany,  \* argument of shouldFetchFullData: a company row or null
    policyNow,      \* the clock read by new Date() inside shouldFetchFullData
    policyDecision, \* pending, or the boolean returned
    projInputs,     \* arguments of projectFCFWithGrowth
    projOutcome,    \* pending, or the projections returned
    dbCompany,      \* committed row of the companies table for the ticker, or null
    dbStatements,   \* committed rows of the three statement tables, by kind
    dbSectors,      \* committed names of the sectors table
    dbIndustries,   \* committed names of the industries table
    lock,           \* the request whose open transaction holds the company row, or 0
    pc,             \* per request: the await it stands at
    existing,       \* per request: the company row it read first
    fullData,       \* per request: what getTickerFullData returned
    price,          \* per request: what getTickerPrice returned
    tx,             \* per request: the uncommitted state of its transaction
    view,           \* per request: the rows its SELECTs returned so far
    response,       \* per request: the JSON it answered
    clockDay,       \* the clock, in days
    ticks,          \* how often the clock has advanced
    fetchCount,     \* how many full data sets Yahoo has served
    valuations,     \* committed rows of the valuations table
    valuationIds,   \* how many valuation ids gen_random_uuid() has drawn
    valPc,          \* per valuation request: the await it stands at
    valRequest,     \* per valuation request: handler, params and body
    valCompany,     \* per valuation request: the company row it selected
    existingValuation, \* per valuation request: the valuation row it selected
    valResponse,    \* per valuation request: status and JSON it answered
    searchCompanies,   \* rows of the companies table searchCompany looks through
    searchPc,       \* the await searchCompany stands at
    term,           \* req.query.term
    dbResults,      \* what the database query of searchCompany returned
    yahooSearches,  \* the terms Yahoo search has been called with
    searchResponse  \* status and JSON searchCompany answered

dcfVars == <<dcfInputs, dcfOutcome>>
sensVars == <<sensInputs, sensOutcome>>
policyVars == <<policyCompany, policyNow, policyDecision>>
projVars == <<projInputs, projOutcome>>
dbVars == <<dbCompany, dbStatements, dbSectors, dbIndustries, lock>>
reqVars == <<pc, existing, fullData, price, tx, view, response>>
envVars == <<clockDay, ticks, fetchCount>>
serverVars == <<dbVars, reqVars, envVars>>
pureVars == <<dcfVars, sensVars, policyVars, projVars>>
valuationVars == <<valuations, valuationIds, valPc, valRequest, valCompany,
                   existingValuation, valResponse>>
searchVars == <<searchCompanies, searchPc, term, dbResults, yahooSearches, searchResponse>>

vars == <<dcfVars, sensVars, policyVars, projVars, serverVars, valuationVars, searchVars>>

-----------------------------------------------------------------------------
(* Numbers *)

Abs(x) == IF x < 0 THEN -x ELSE x

Sign(x) == IF x < 0 THEN -1 ELSE IF x > 0 THEN 1 ELSE 0

RECURSIVE GCD(_, _)
GCD(a, b) == IF b = 0 THEN Abs(a) ELSE GCD(b, a % b)

\* The number n/d, normalised.
Rat(n, d) ==
    IF d = 0 THEN [n |-> Sign(n), d |-> 0]
    ELSE LET g == GCD(Abs(n), Abs(d))
             s == Sign(d)
         IN  [n |-> s * (n \div g), d |-> s * (d \div g)]

Num(i) == [n |-> i, d |-> 1]

IsFinite(x) == x.d # 0

\* The largest finite number.
MaxValue == 1000000

\* The result of an operation as the format holds it: a magnitude above
\* MaxValue overflows to the Infinity of its sign.
Overflow(x) ==
    IF x.d # 0 /\ (\/ Abs(x.n) \div x.d > MaxValue
                   \/ (Abs(x.n) \div x.d = MaxValue /\ Abs(x.n) % x.d > 0))
    THEN [n |-> Sign(x.n), d |-> 0]
    ELSE x

\* x * y; the factors are cross-cancelled first, 0 * Infinity is NaN.
Mul(x, y) ==
    IF x.d = 0 \/ y.d = 0 THEN Rat(Sign(x.n) * Sign(y.n), 0)
    ELSE LET g1 == GCD(Abs(x.n), y.d)
             g2 == GCD(Abs(y.n), x.d)
         IN  Overflow(Rat((x.n \div g1) * (y.n \div g2), (x.d \div g2) * (y.d \div g1)))

\* x / y; a finite non-zero value over 0 is an Infinity, 0 / 0 is NaN.
Div(x, y) ==
    IF y.d = 0 THEN (IF x.d = 0 THEN Rat(0, 0) ELSE IF y.n = 0 THEN Rat(0, 0) ELSE Num(0))
    ELSE IF x.d = 0 THEN Rat(x.n * (IF y.n < 0 THEN -1 ELSE 1), 0)
    ELSE IF y.n = 0 THEN Rat(Sign(x.n), 0)
    ELSE Mul(x, Rat(y.d, y.n))

\* x + y; Infinity + -Infinity is NaN.
Add(x, y) ==
    IF x.d = 0 /\ y.d = 0 THEN (IF x.n = y.n THEN x ELSE Rat(0, 0))
    ELSE IF x.d = 0 THEN x
    ELSE IF y.d = 0 THEN y
    ELSE LET g == GCD(x.d, y.d)
             l == (x.d \div g) * y.d
         IN  Overflow(Rat(x.n * (l \div x.d) + y.n * (l \div y.d), l))

Sub(x, y) == Add(x, [n |-> -y.n, d |-> y.d])

\* Math.pow(x, k) for an integer k >= 0.
RECURSIVE Pow(_, _)
Pow(x, k) == IF k = 0 THEN Num(1) ELSE Mul(x, Pow(x, k - 1))

\* Math.round: the nearest integer, a tie going up; a non-finite value is kept.
MathRound(x) ==
    IF x.d = 0 THEN x ELSE Num((2 * x.n + x.d) \div (2 * x.d))

\* The sum of a sequence of numbers, from the left, starting at 0 (Array.reduce).
RECURSIVE SumSeq(_)
SumSeq(s) == IF s = <<>> THEN Num(0) ELSE Add(SumSeq(SubSeq(s, 1, Len(s) - 1)), s[Len(s)])

-----------------------------------------------------------------------------
(* valuation.service: calculateDCFValuation *)

Years == 10

\* discountCashFlows with its year counted from 0 (the array index).
discountCashFlowsFromYear0(fcfProjections, discountRate) ==
    LET r == Rat(discountRate, 100)
    IN  [index \in 1..Len(fcfProjections) |->
            Div(Num(fcfProjections[index]), Pow(Add(Num(1), r), index - 1))]

\* discountCashFlows with every year divided by (1 + r) once, whatever the year.
discountCashFlowsFlatFactor(fcfProjections, discountRate) ==
    LET r == Rat(discountRate, 100)
    IN  [index \in 1..Len(fcfProjections) |->
            Div(Num(fcfProjections[index]), Add(Num(1), r))]

\* discountCashFlows: fcf / (1 + r)^year.  Sequences count from 1, so the
\* code's year = index + 1 is the position itself.
discountCashFlows(fcfProjections, discountRate) ==
    LET r == Rat(discountRate, 100)
    IN  [index \in 1..Len(fcfProjections) |->
            LET year == index
                discountFactor == Pow(Add(Num(1), r), year)
            IN  Div(Num(fcfProjections[index]), discountFactor)]

\* calculatePerpetuityValue: Gordon growth on fcf10, discounted over 10 years.
calculatePerpetuityValue(fcf10, discountRate, perpetualGrowthRate) ==
    LET r == Rat(discountRate, 100)
        g == Rat(perpetualGrowthRate, 100)
        perpetuityValue == Div(Mul(Num(fcf10), Add(Num(1), g)), Sub(r, g))
        discountFactor == Pow(Add(Num(1), r), 10)
    IN  [perpetuityValue |-> perpetuityValue,
         discountedPerpetuityValue |-> Div(perpetuityValue, discountFactor)]

\* calculateTotalEquityValue with the terminal value left out of the sum.
calculateTotalEquityValueNoTerminal(discountedFcfs, discountedPerpetuityValue) ==
    SumSeq(discountedFcfs)

calculateTotalEquityValue(discountedFcfs, discountedPerpetuityValue) ==
    Add(SumSeq(discountedFcfs), discountedPerpetuityValue)

calculatePerShareValue(totalEquityValue, sharesOutstanding) ==
    Div(totalEquityValue, Num(sharesOutstanding))

ErrProjectionCount == "Must provide exactly 10 years of FCF projections"
ErrRateRelationship == "Discount rate must be greater than perpetual growth rate"
ErrShareCount == "Shares outstanding must be positive"

Thrown(message) == [status |-> "error", message |-> message]

\* The validation with the share count checked first.
validateInputsSharesFirst(inputs) ==
    IF inputs.sharesOutstanding <= 0 THEN ErrShareCount
    ELSE IF inputs.discountRate <= inputs.perpetualGrowthRate THEN ErrRateRelationship
    ELSE IF Len(inputs.fcfProjections) # Years THEN ErrProjectionCount
    ELSE ""

\* The validation with equal rates let through (< for <=).
validateInputsEqualRatesPass(inputs) ==
    IF Len(inputs.fcfProjections) # Years THEN ErrProjectionCount
    ELSE IF inputs.discountRate < inputs.perpetualGrowthRate THEN ErrRateRelationship
    ELSE IF inputs.sharesOutstanding <= 0 THEN ErrShareCount
    ELSE ""

\* The validation of calculateDCFValuation: the message of the first failed
\* check, or "" when the inputs pass.
validateInputs(inputs) ==
    IF Len(inputs.fcfProjections) # Years THEN ErrProjectionCount
    ELSE IF inputs.discountRate <= inputs.perpetualGrowthRate THEN ErrRateRelationship
    ELSE IF inputs.sharesOutstanding <= 0 THEN ErrShareCount
    ELSE ""

calculateDCFValuation(inputs) ==
    IF validateInputs(inputs) # "" THEN Thrown(validateInputs(inputs))
    ELSE LET discountedFcfs == discountCashFlows(inputs.fcfProjections, inputs.discountRate)
             totalDiscountedFcf == SumSeq(discountedFcfs)
             fcf10 == inputs.fcfProjections[10]
             pv == calculatePerpetuityValue(fcf10, inputs.discountRate,
                                            inputs.perpetualGrowthRate)
             totalEquityValue ==
                 calculateTotalEquityValue(discountedFcfs, pv.discountedPerpetuityValue)
         IN  [status |-> "ok",
              discountedFcfs |-> discountedFcfs,
              totalDiscountedFcf |-> totalDiscountedFcf,
              perpetuityValue |-> pv.perpetuityValue,
              discountedPerpetuityValue |-> pv.discountedPerpetuityValue,
              totalEquityValue |-> totalEquityValue,
              intrinsicValuePerShare |->
                  calculatePerShareValue(totalEquityValue, inputs.sharesOutstanding)]

-----------------------------------------------------------------------------
(* The calculator called once on an input drawn from the bounded domain *)

MaxFcf == 3
MaxShares == 3

\* Rates in percent.  (100 + rate) / 100 is -1, 0, 1/2, 1, 3/2, 2.
RateValues == {-200, -100, -50, 0, 50, 100}

FcfValues == (-MaxFcf)..MaxFcf

SplitPoints == {0, 5, 9}

\* len projections: the first k are a, the others b.
FcfVector(a, b, k, len) == [i \in 1..len |-> IF i <= k THEN a ELSE b]

FcfVectors ==
    {FcfVector(a, b, k, Years) : a \in FcfValues, b \in FcfValues, k \in SplitPoints}
    \cup {FcfVector(1, 2, 1, len) : len \in {0, 2, Years - 1, Years + 1}}

\* Ten projections at the largest finite number, of either sign.
HugeFcfVectors == {FcfVector(a, a, 0, Years) : a \in {-MaxValue, MaxValue}}

ShareValues == (-1)..MaxShares

\* The huge projections are drawn with the rates 0 and -50 on one share.
DCFInputs ==
    [fcfProjections : FcfVectors, discountRate : RateValues,
     perpetualGrowthRate : RateValues, sharesOutstanding : ShareValues]
    \cup [fcfProjections : HugeFcfVectors, discountRate : {0},
          perpetualGrowthRate : {-50}, sharesOutstanding : {1}]

Pending == [status |-> "pending"]

NoCall == [call |-> "none"]

DCFStart ==
    /\ dcfInputs \in DCFInputs
    /\ dcfOutcome = Pending

DCFIdle ==
    /\ dcfInputs = NoCall
    /\ dcfOutcome = Pending

CallDCF ==
    /\ dcfOutcome = Pending
    /\ dcfOutcome' = calculateDCFValuation(dcfInputs)
    /\ UNCHANGED <<dcfInputs, sensVars, policyVars, projVars, serverVars, valuationVars, searchVars>>


-----------------------------------------------------------------------------
(* valuation.service: generateSensitivityAnalysis *)

\* The template literal `${rate}%`: the number's decimal text and a % sign.
Label(rate) == ToString(rate) \o "%"

EmptyObject == [k \in {} |-> 0]

\* obj[key] = value on a JavaScript object: the key is added or overwritten.
SetKey(obj, key, value) ==
    [k \in DOMAIN obj \cup {key} |-> IF k = key THEN value ELSE obj[k]]

\* The loop body without its try/catch: the Error of the calculator escapes.
sensitivityCellNoCatch(fcfProjections, sharesOutstanding, discountRate, growthRate) ==
    LET calc == calculateDCFValuation(
                    [fcfProjections |-> fcfProjections, discountRate |-> discountRate,
                     perpetualGrowthRate |-> growthRate,
                     sharesOutstanding |-> sharesOutstanding])
    IN  IF calc.status = "error" THEN calc
        ELSE Div(MathRound(Mul(calc.intrinsicValuePerShare, Num(100))), Num(100))

\* The value stored without the rounding to cents.
storedValueUnrounded(calc) ==
    IF calc.status = "error" THEN Num(0) ELSE calc.intrinsicValuePerShare

\* What the inner loop stores for the outcome of the calculator: the per-share
\* value rounded to cents, or the 0 of the catch clause.
storedValue(calc) ==
    IF calc.status = "error" THEN Num(0)
    ELSE Div(MathRound(Mul(calc.intrinsicValuePerShare, Num(100))), Num(100))

\* The body of the inner loop: the value stored for one rate pair.
sensitivityCell(fcfProjections, sharesOutstanding, discountRate, growthRate) ==
    storedValue(calculateDCFValuation(
                    [fcfProjections |-> fcfProjections, discountRate |-> discountRate,
                     perpetualGrowthRate |-> growthRate,
                     sharesOutstanding |-> sharesOutstanding]))

IsThrown(x) == "status" \in DOMAIN x /\ x.status = "error"

\* The inner loop with the row set to {} before every cell, not once per
\* discount rate.
RECURSIVE sensitivityRowResetPerCell(_, _, _, _, _, _)
sensitivityRowResetPerCell(row, fcfProjections, sharesOutstanding, discountRate, growthRates, j) ==
    IF j > Len(growthRates) THEN row
    ELSE LET cell == sensitivityCell(fcfProjections, sharesOutstanding,
                                     discountRate, growthRates[j])
         IN  IF IsThrown(cell) THEN cell
             ELSE sensitivityRowResetPerCell(
                      SetKey(EmptyObject, Label(growthRates[j]), cell), fcfProjections,
                      sharesOutstanding, discountRate, growthRates, j + 1)

\* The inner loop from growthRates[j] on with the row so far; an Error that
\* escapes a cell ends the loop.
RECURSIVE sensitivityRow(_, _, _, _, _, _)

\* results[`${discountRate}%`][`${growthRate}%`] = cell, and the loop goes on.
storeCell(row, cell, fcfProjections, sharesOutstanding, discountRate, growthRates, j) ==
    IF IsThrown(cell) THEN cell
    ELSE sensitivityRow(SetKey(row, Label(growthRates[j]), cell), fcfProjections,
                        sharesOutstanding, discountRate, growthRates, j + 1)

sensitivityRow(row, fcfProjections, sharesOutstanding, discountRate, growthRates, j) ==
    IF j > Len(growthRates) THEN row
    ELSE storeCell(row,
                   sensitivityCell(fcfProjections, sharesOutstanding,
                                   discountRate, growthRates[j]),
                   fcfProjections, sharesOutstanding, discountRate, growthRates, j)

\* The outer loop from discountRates[i] on: the row of the rate is set to {}
\* and filled by the inner loop.
RECURSIVE sensitivityRows(_, _, _, _, _, _)

\* The filled row is kept under the label of its discount rate, and the loop
\* goes on.
storeRow(results, row, fcfProjections, sharesOutstanding, discountRates, growthRates, i) ==
    IF IsThrown(row) THEN row
    ELSE sensitivityRows(SetKey(results, Label(discountRates[i]), row),
                         fcfProjections, sharesOutstanding, discountRates,
                         growthRates, i + 1)

sensitivityRows(results, fcfProjections, sharesOutstanding, discountRates, growthRates, i) ==
    IF i > Len(discountRates) THEN results
    ELSE storeRow(results,
                  sensitivityRow(EmptyObject, fcfProjections, sharesOutstanding,
                                 discountRates[i], growthRates, 1),
                  fcfProjections, sharesOutstanding, discountRates, growthRates, i)

\* return results, or the Error that escaped.
returned(results) ==
    IF IsThrown(results) THEN results
    ELSE [status |-> "ok", matrix |-> results]

generateSensitivityAnalysis(fcfProjections, sharesOutstanding, discountRates, growthRates) ==
    returned(sensitivityRows(EmptyObject, fcfProjections, sharesOutstanding,
                             discountRates, growthRates, 1))

-----------------------------------------------------------------------------
(* The generator called once on arguments drawn from the bounded domain *)

MaxRates == 2

SensRateValues == {-200, -100, 0, 50}

SensFcfVectors ==
    {FcfVector(a, a, 0, Years) : a \in {-2, 0, 3}}
    \cup {FcfVector(1, 2, 5, Years), FcfVector(1, 2, 5, Years - 1)}

SensShareValues == {0, 3}

\* The sequences over S of length at most n.
SeqsUpTo(S, n) == UNION {[1..len -> S] : len \in 0..n}

SensInputs ==
    [fcfProjections : SensFcfVectors, sharesOutstanding : SensShareValues,
     discountRates : SeqsUpTo(SensRateValues, MaxRates),
     growthRates : SeqsUpTo(SensRateValues, MaxRates)]

SensStart ==
    /\ sensInputs \in SensInputs
    /\ sensOutcome = Pending

SensIdle ==
    /\ sensInputs = NoCall
    /\ sensOutcome = Pending

CallSens ==
    /\ sensOutcome = Pending
    /\ sensOutcome' = generateSensitivityAnalysis(
                          sensInputs.fcfProjections, sensInputs.sharesOutstanding,
                          sensInputs.discountRates, sensInputs.growthRates)
    /\ UNCHANGED <<sensInputs, dcfVars, policyVars, projVars, serverVars, valuationVars, searchVars>>

-----------------------------------------------------------------------------
(* company.controller: shouldFetchFullData *)

\* A Date is its epoch time in milliseconds, kept as whole days and the
\* milliseconds into the day, 0 <= ms < MsPerDay.
MsPerDay == 1000 * 60 * 60 * 24

Null == [null |-> TRUE]

Date(day, ms) == [day |-> day, ms |-> ms]

\* a < b and a <= b on Dates (the comparison of their epoch times).
DateLess(a, b) == a.day < b.day \/ (a.day = b.day /\ a.ms < b.ms)

DateLessEq(a, b) == a.day < b.day \/ (a.day = b.day /\ a.ms <= b.ms)

\* (a.getTime() - b.getTime()) / (1000 * 60 * 60 * 24): whole days and the
\* fraction of a day, 0 <= frac < 1.
DaysBetween(a, b) ==
    IF a.ms >= b.ms
    THEN [whole |-> a.day - b.day, frac |-> Rat(a.ms - b.ms, MsPerDay)]
    ELSE [whole |-> a.day - b.day - 1, frac |-> Rat(a.ms - b.ms + MsPerDay, MsPerDay)]

\* days > k and days >= k for a whole number k.
DaysGreater(days, k) == days.whole > k \/ (days.whole = k /\ days.frac.n > 0)

DaysGreaterEq(days, k) == days.whole >= k

StaleDays == 90

\* The earnings rule without its second conjunct: any past earnings date.
earningsPassedAnyPastDate(company, now) ==
    DateLessEq(company.nextEarnings, now)

\* The earnings rule with < for <=: an earnings date of this very instant
\* does not count as passed.
earningsPassedStrictly(company, now) ==
    /\ DateLess(company.nextEarnings, now)
    /\ DateLess(company.lastFullFetch, company.nextEarnings)

\* The rule of lines 288-293: the earnings date is past and later than the
\* last full fetch.
earningsPassed(company, now) ==
    /\ DateLessEq(company.nextEarnings, now)
    /\ DateLess(company.lastFullFetch, company.nextEarnings)

\* The age rule with >= for >.
fetchTooOldFrom90(company, now) ==
    DaysGreaterEq(DaysBetween(now, company.lastFullFetch), StaleDays)

\* The rule of lines 295-297: daysSinceLastFetch > 90.
fetchTooOld(company, now) ==
    DaysGreater(DaysBetween(now, company.lastFullFetch), StaleDays)

shouldFetchFullData(company, now) ==
    IF company = Null THEN TRUE
    ELSE IF company.nextEarnings = Null THEN TRUE
    ELSE IF company.lastFullFetch = Null THEN TRUE
    ELSE IF earningsPassed(company, now) THEN TRUE
    ELSE IF fetchTooOld(company, now) THEN TRUE
    ELSE FALSE

-----------------------------------------------------------------------------
(* The policy called once on a snapshot drawn from the bounded domain *)

\* The clock stands at day Today; the stored dates lie around it and around
\* the 90-day limit before it.
Today == 100

PolicyDays == {Today - 91, Today - 90, Today - 89, Today - 30, Today - 1, Today, Today + 1}

PolicyMs == {0, 1, MsPerDay - 1}

PolicyDates == {Date(d, ms) : d \in PolicyDays, ms \in PolicyMs}

PolicyCompanies ==
    {Null} \cup [nextEarnings : PolicyDates \cup {Null},
                 lastFullFetch : PolicyDates \cup {Null}]

PolicyStart ==
    /\ policyCompany \in PolicyCompanies
    /\ policyNow \in {Date(Today, ms) : ms \in {0, 1}}
    /\ policyDecision = Pending

PolicyIdle ==
    /\ policyCompany = NoCall
    /\ policyNow = Date(0, 0)
    /\ policyDecision = Pending

CallPolicy ==
    /\ policyDecision = Pending
    /\ policyDecision' = [status |-> "ok",
                          value |-> shouldFetchFullData(policyCompany, policyNow)]
    /\ UNCHANGED <<policyCompany, policyNow, dcfVars, sensVars, projVars, serverVars, valuationVars, searchVars>>

-----------------------------------------------------------------------------
(* valuation.service: projectFCFWithGrowth *)

DefaultYears == 10

Omitted == [omitted |-> TRUE]

\* The loop with the rounded value carried into the next period.
RECURSIVE projectionLoopRoundedSeed(_, _, _, _, _)
projectionLoopRoundedSeed(projections, currentFcf, growthRate, years, i) ==
    IF ~(i < years) THEN projections
    ELSE LET grown == MathRound(Mul(currentFcf, Add(Num(1), Rat(growthRate, 100))))
         IN  projectionLoopRoundedSeed(Append(projections, grown), grown,
                                       growthRate, years, i + 1)

\* The loop with currentFcf multiplied by growthRate / 100, the 1 of
\* (1 + growthRate / 100) left out.
RECURSIVE projectionLoopWithoutOne(_, _, _, _, _)
projectionLoopWithoutOne(projections, currentFcf, growthRate, years, i) ==
    IF ~(i < years) THEN projections
    ELSE LET grown == Mul(currentFcf, Rat(growthRate, 100))
         IN  projectionLoopWithoutOne(Append(projections, MathRound(grown)), grown,
                                      growthRate, years, i + 1)

\* The loop of lines 183-186 from iteration i on: currentFcf is multiplied by
\* (1 + growthRate / 100) and kept as it is; its rounding is pushed.
RECURSIVE projectionLoop(_, _, _, _, _)
projectionLoop(projections, currentFcf, growthRate, years, i) ==
    IF ~(i < years) THEN projections
    ELSE LET grown == Mul(currentFcf, Add(Num(1), Rat(growthRate, 100)))
         IN  projectionLoop(Append(projections, MathRound(grown)), grown,
                            growthRate, years, i + 1)

\* projectFCFWithGrowth with baseFcf pushed before the loop starts.
projectFCFWithGrowthBasePrepended(baseFcf, growthRate, yearsArg) ==
    LET years == IF yearsArg = Omitted THEN DefaultYears ELSE yearsArg.value
    IN  projectionLoop(<<Num(baseFcf)>>, Num(baseFcf), growthRate, years, 0)

projectFCFWithGrowth(baseFcf, growthRate, yearsArg) ==
    LET years == IF yearsArg = Omitted THEN DefaultYears ELSE yearsArg.value
    IN  projectionLoop(<<>>, Num(baseFcf), growthRate, years, 0)

-----------------------------------------------------------------------------
(* The projector called once on arguments drawn from the bounded domain *)

MaxBase == 4
MaxYears == 4

YearsArgs == {Omitted} \cup {[value |-> y] : y \in (-1)..MaxYears}

\* Growth rates whose factor is 11/10 or 19/20 are projected over the short
\* horizons only.
ProjInputs ==
    [baseFcf : (-MaxBase)..MaxBase, growthRate : RateValues, years : YearsArgs]
    \cup [baseFcf : (-MaxBase)..MaxBase, growthRate : {10, -5},
          years : YearsArgs \ {Omitted}]

ProjStart ==
    /\ projInputs \in ProjInputs
    /\ projOutcome = Pending

ProjIdle ==
    /\ projInputs = NoCall
    /\ projOutcome = Pending

CallProj ==
    /\ projOutcome = Pending
    /\ projOutcome' = [status |-> "ok",
                       projections |-> projectFCFWithGrowth(
                           projInputs.baseFcf, projInputs.growthRate, projInputs.years)]
    /\ UNCHANGED <<projInputs, dcfVars, sensVars, policyVars, serverVars, valuationVars, searchVars>>

-----------------------------------------------------------------------------
(* company.controller on the database: getCompany, its full refresh and its
   quick price update, and getFinancialStatements, for one ticker.

   The database is PostgreSQL at READ COMMITTED: a statement outside a
   transaction sees and changes the committed rows; the statements of a
   transaction work on tx[p], which is published by COMMIT and dropped by
   ROLLBACK; a row written by an open transaction is locked against other
   writers until then.  Every await is one step.  A full data set is known by
   the number of the fetch that returned it, and each of its three statement
   lists holds at least one row. *)

MaxRequests == 2
MaxFetches == 2
MaxTicks == 1

Procs == 1..MaxRequests

Kinds == {"balanceSheets", "incomeStatements", "cashFlows"}

KindOrder == <<"balanceSheets", "incomeStatements", "cashFlows">>

PriceValues == {1, 2}

SectorName == [name |-> "Technology"]
IndustryName == [name |-> "Software"]

Unread == [unread |-> TRUE]

NoStatements == [k \in Kinds |-> {}]

Clock == Date(clockDay, 0)

\* The statement rows of one kind that belong to a company.
RowsOf(rows, companyId) == {r \in rows : r.companyId = companyId}

\* buildCompanyData: the company part of a full data set fetched now.
buildCompanyData(id, nextEarnings, hasProfile) ==
    [id |-> id,
     sector |-> IF hasProfile THEN SectorName ELSE Null,
     category |-> IF hasProfile THEN IndustryName ELSE Null,
     price |-> 1,
     nextEarnings |-> nextEarnings,
     lastFullFetch |-> Clock]

\* A companies row holding the data of a fetch.
CompanyRow(id, data, updatedAt) ==
    [id |-> id, fetch |-> data.id, price |-> data.price,
     nextEarnings |-> data.nextEarnings, lastFullFetch |-> data.lastFullFetch,
     sectorId |-> data.sector, industryId |-> data.category,
     updatedAt |-> updatedAt]

\* The id the statements of request p are written under: company.id on the
\* update path, newCompany.id on the insert path.
CompanyIdOf(p) == IF existing[p] # Null THEN existing[p].id ELSE fullData[p].id

DeletePc(k) == "delete_" \o k
InsertPc(k) == "insert_" \o k

\* The step after the DELETE or INSERT of kind k.
AfterDelete(k) ==
    IF k = "balanceSheets" THEN DeletePc("incomeStatements")
    ELSE IF k = "incomeStatements" THEN DeletePc("cashFlows")
    ELSE InsertPc("balanceSheets")

AfterInsert(k) ==
    IF k = "balanceSheets" THEN InsertPc("incomeStatements")
    ELSE IF k = "incomeStatements" THEN InsertPc("cashFlows")
    ELSE "commit"

\* getCompany, lines 60-71: the first SELECT and the refresh decision.
GetCompanyFind(p) ==
    /\ pc[p] = "idle"
    /\ existing' = [existing EXCEPT ![p] = dbCompany]
    /\ pc' = [pc EXCEPT ![p] = IF shouldFetchFullData(dbCompany, Clock)
                               THEN "fetch_full" ELSE "fetch_price"]
    /\ UNCHANGED <<dbVars, fullData, price, tx, view, response, envVars, pureVars, valuationVars, searchVars>>

\* getTickerFullData, line 75: Yahoo answers with a new data set; the first
\* earnings date of its calendar is missing, already past, or still to come.
FetchFullData(p) ==
    /\ pc[p] = "fetch_full"
    /\ fetchCount < MaxFetches
    /\ \E nextEarnings \in {Null, Date(clockDay - 1, 0), Date(clockDay + 1, 0)},
          hasProfile \in BOOLEAN :
           fullData' = [fullData EXCEPT ![p] =
                           buildCompanyData(fetchCount + 1, nextEarnings, hasProfile)]
    /\ fetchCount' = fetchCount + 1
    /\ pc' = [pc EXCEPT ![p] = "sector"]
    /\ UNCHANGED <<dbVars, existing, price, tx, view, response, clockDay, ticks, pureVars, valuationVars, searchVars>>

\* findOrCreateSector, on the pool connection db, not on tx.
FindOrCreateSector(p) ==
    /\ pc[p] = "sector"
    /\ dbSectors' = IF fullData[p].sector = Null THEN dbSectors
                    ELSE dbSectors \cup {fullData[p].sector}
    /\ pc' = [pc EXCEPT ![p] = "industry"]
    /\ UNCHANGED <<dbCompany, dbStatements, dbIndustries, lock, existing, fullData,
                   price, tx, view, response, envVars, pureVars, valuationVars, searchVars>>

\* findOrCreateIndustry, on the pool connection db, not on tx.
FindOrCreateIndustry(p) ==
    /\ pc[p] = "industry"
    /\ dbIndustries' = IF fullData[p].category = Null THEN dbIndustries
                       ELSE dbIndustries \cup {fullData[p].category}
    /\ pc' = [pc EXCEPT ![p] = IF existing[p] # Null THEN "update_company"
                               ELSE "insert_company"]
    /\ UNCHANGED <<dbCompany, dbStatements, dbSectors, lock, existing, fullData,
                   price, tx, view, response, envVars, pureVars, valuationVars, searchVars>>

\* updateCompanyWithFullData, lines 396-404: tx.update(companies); the row is
\* locked until the transaction ends.
UpdateCompany(p) ==
    /\ pc[p] = "update_company"
    /\ lock = 0
    /\ lock' = p
    /\ tx' = [tx EXCEPT ![p] =
                 [company |-> IF dbCompany # Null /\ dbCompany.id = existing[p].id
                              THEN CompanyRow(dbCompany.id, fullData[p], clockDay)
                              ELSE dbCompany,
                  statements |-> dbStatements]]
    /\ pc' = [pc EXCEPT ![p] = DeletePc("balanceSheets")]
    /\ UNCHANGED <<dbCompany, dbStatements, dbSectors, dbIndustries, existing,
                   fullData, price, view, response, envVars, pureVars, valuationVars, searchVars>>

\* A DELETE of the rows the request saw when it read the company, instead of
\* all rows of the company.
DeleteStatementsOfReadFetch(p, k) ==
    /\ pc[p] = DeletePc(k)
    /\ tx' = [tx EXCEPT ![p].statements[k] =
                 @ \ {r \in RowsOf(@, CompanyIdOf(p)) : r.fetch = existing[p].fetch}]
    /\ pc' = [pc EXCEPT ![p] = AfterDelete(k)]
    /\ UNCHANGED <<dbVars, existing, fullData, price, view, response, envVars, pureVars, valuationVars, searchVars>>

\* updateCompanyWithFullData, lines 407-413: tx.delete of one statement table.
DeleteStatements(p, k) ==
    /\ pc[p] = DeletePc(k)
    /\ tx' = [tx EXCEPT ![p].statements[k] = @ \ RowsOf(@, CompanyIdOf(p))]
    /\ pc' = [pc EXCEPT ![p] = AfterDelete(k)]
    /\ UNCHANGED <<dbVars, existing, fullData, price, view, response, envVars, pureVars, valuationVars, searchVars>>

\* The INSERT on a companies table whose ticker column is not unique: it
\* succeeds beside a committed row of the ticker.
InsertCompanyBesideExisting(p) ==
    /\ pc[p] = "insert_company"
    /\ lock = 0
    /\ lock' = p
    /\ tx' = [tx EXCEPT ![p] =
                 [company |-> CompanyRow(fullData[p].id, fullData[p], clockDay),
                  statements |-> dbStatements]]
    /\ pc' = [pc EXCEPT ![p] = InsertPc("balanceSheets")]
    /\ UNCHANGED <<dbCompany, dbStatements, dbSectors, dbIndustries, existing,
                   fullData, price, view, response, envVars, pureVars, valuationVars, searchVars>>

\* insertCompanyWithFullData, lines 342-349: tx.insert(companies); ticker is
\* unique, so the INSERT waits for an open transaction on the ticker and
\* fails when the ticker is committed.
InsertCompany(p) ==
    /\ pc[p] = "insert_company"
    /\ lock = 0
    /\ IF dbCompany # Null
       THEN /\ pc' = [pc EXCEPT ![p] = "failed"]
            /\ response' = [response EXCEPT ![p] = [status |-> 500]]
            /\ UNCHANGED <<lock, tx>>
       ELSE /\ lock' = p
            /\ tx' = [tx EXCEPT ![p] =
                         [company |-> CompanyRow(fullData[p].id, fullData[p], clockDay),
                          statements |-> dbStatements]]
            /\ pc' = [pc EXCEPT ![p] = InsertPc("balanceSheets")]
            /\ UNCHANGED response
    /\ UNCHANGED <<dbCompany, dbStatements, dbSectors, dbIndustries, existing,
                   fullData, price, view, envVars, pureVars, valuationVars, searchVars>>

\* Lines 351-375 and 416-432: tx.insert of the fetched rows of one kind.
InsertStatements(p, k) ==
    /\ pc[p] = InsertPc(k)
    /\ tx' = [tx EXCEPT ![p].statements[k] =
                 @ \cup {[companyId |-> CompanyIdOf(p), fetch |-> fullData[p].id]}]
    /\ pc' = [pc EXCEPT ![p] = AfterInsert(k)]
    /\ UNCHANGED <<dbVars, existing, fullData, price, view, response, envVars, pureVars, valuationVars, searchVars>>

\* The statements of a full data set as the response carries them.
FetchedStatements(data) == [k \in Kinds |-> {data.id}]

\* The callback of db.transaction returns: COMMIT.  The insert path answers
\* with the company it read inside the transaction, the update path reads
\* the company again.
Commit(p) ==
    /\ pc[p] = "commit"
    /\ dbCompany' = tx[p].company
    /\ dbStatements' = tx[p].statements
    /\ lock' = 0
    /\ tx' = [tx EXCEPT ![p] = Null]
    /\ IF existing[p] # Null
       THEN /\ pc' = [pc EXCEPT ![p] = "reread"]
            /\ UNCHANGED response
       ELSE /\ pc' = [pc EXCEPT ![p] = "done"]
            /\ response' = [response EXCEPT ![p] =
                               [status |-> 200, company |-> tx[p].company,
                                statements |-> FetchedStatements(fullData[p])]]
    /\ UNCHANGED <<dbSectors, dbIndustries, existing, fullData, price, view, envVars, pureVars, valuationVars, searchVars>>

\* getCompany, lines 81-96: the company is read again and sent with the
\* fetched statements.
Reread(p) ==
    /\ pc[p] = "reread"
    /\ response' = [response EXCEPT ![p] =
                       [status |-> 200, company |-> dbCompany,
                        statements |-> FetchedStatements(fullData[p])]]
    /\ pc' = [pc EXCEPT ![p] = "done"]
    /\ UNCHANGED <<dbVars, existing, fullData, price, tx, view, envVars, pureVars, valuationVars, searchVars>>

\* getTickerPrice, line 99.
FetchPrice(p) ==
    /\ pc[p] = "fetch_price"
    /\ \E v \in PriceValues : price' = [price EXCEPT ![p] = v]
    /\ pc' = [pc EXCEPT ![p] = "update_price"]
    /\ UNCHANGED <<dbVars, existing, fullData, tx, view, response, envVars, pureVars, valuationVars, searchVars>>

\* The quick update with lastFullFetch set as well, as a full fetch sets it.
UpdatePriceAndFetchTime(p) ==
    /\ pc[p] = "update_price"
    /\ lock = 0
    /\ dbCompany' = IF dbCompany # Null /\ dbCompany.id = existing[p].id
                    THEN [dbCompany EXCEPT !.price = price[p], !.updatedAt = clockDay,
                                           !.lastFullFetch = Clock]
                    ELSE dbCompany
    /\ view' = [view EXCEPT ![p] = [company |-> Unread, statements |-> [k \in Kinds |-> Unread]]]
    /\ pc' = [pc EXCEPT ![p] = "reading"]
    /\ UNCHANGED <<dbStatements, dbSectors, dbIndustries, lock, existing, fullData,
                   price, tx, response, envVars, pureVars, valuationVars, searchVars>>

\* getCompany, lines 102-108: db.update(companies) of price and updatedAt; it
\* waits while an open transaction holds the row.
UpdatePrice(p) ==
    /\ pc[p] = "update_price"
    /\ lock = 0
    /\ dbCompany' = IF dbCompany # Null /\ dbCompany.id = existing[p].id
                    THEN [dbCompany EXCEPT !.price = price[p], !.updatedAt = clockDay]
                    ELSE dbCompany
    /\ view' = [view EXCEPT ![p] = [company |-> Unread, statements |-> [k \in Kinds |-> Unread]]]
    /\ pc' = [pc EXCEPT ![p] = "reading"]
    /\ UNCHANGED <<dbStatements, dbSectors, dbIndustries, lock, existing, fullData,
                   price, tx, response, envVars, pureVars, valuationVars, searchVars>>

\* getFinancialStatements, lines 219-231: the company is looked up, 404
\* without it.
FinancialStatementsFind(p) ==
    /\ pc[p] = "idle"
    /\ existing' = [existing EXCEPT ![p] = dbCompany]
    /\ IF dbCompany = Null
       THEN /\ pc' = [pc EXCEPT ![p] = "done"]
            /\ response' = [response EXCEPT ![p] = [status |-> 404]]
            /\ UNCHANGED view
       ELSE /\ pc' = [pc EXCEPT ![p] = "reading"]
            /\ view' = [view EXCEPT ![p] =
                           [company |-> dbCompany, statements |-> [k \in Kinds |-> Unread]]]
            /\ UNCHANGED response
    /\ UNCHANGED <<dbVars, fullData, price, tx, envVars, pureVars, valuationVars, searchVars>>

\* One query of Promise.all, lines 117-122: the company.
ReadCompany(p) ==
    /\ pc[p] = "reading"
    /\ view[p].company = Unread
    /\ view' = [view EXCEPT ![p].company = dbCompany]
    /\ UNCHANGED <<dbVars, pc, existing, fullData, price, tx, response, envVars, pureVars, valuationVars, searchVars>>

\* One query of Promise.all, lines 123-137 and 236-250: the rows of one
\* statement table, each query on a connection of its own.
ReadStatements(p, k) ==
    /\ pc[p] = "reading"
    /\ view[p].statements[k] = Unread
    /\ view' = [view EXCEPT ![p].statements[k] =
                   [fetches |-> {r.fetch : r \in RowsOf(dbStatements[k], existing[p].id)}]]
    /\ UNCHANGED <<dbVars, pc, existing, fullData, price, tx, response, envVars, pureVars, valuationVars, searchVars>>

\* Promise.all has settled: res.json.
Respond(p) ==
    /\ pc[p] = "reading"
    /\ view[p].company # Unread
    /\ \A k \in Kinds : view[p].statements[k] # Unread
    /\ response' = [response EXCEPT ![p] =
                       [status |-> 200, company |-> view[p].company,
                        statements |-> [k \in Kinds |-> view[p].statements[k].fetches]]]
    /\ pc' = [pc EXCEPT ![p] = "done"]
    /\ UNCHANGED <<dbVars, existing, fullData, price, tx, view, envVars, pureVars, valuationVars, searchVars>>

InTransaction(p) ==
    pc[p] \in {DeletePc(k) : k \in Kinds} \cup {InsertPc(k) : k \in Kinds} \cup {"commit"}

AwaitingIO(p) ==
    pc[p] \in {"fetch_full", "fetch_price", "update_company", "insert_company",
               "update_price", "reread", "reading"}

\* An await rejects (Yahoo or the database fails): an open transaction is
\* rolled back, and the catch of the handler answers 500.
Fail(p) ==
    /\ InTransaction(p) \/ AwaitingIO(p)
    /\ lock' = IF lock = p THEN 0 ELSE lock
    /\ tx' = [tx EXCEPT ![p] = Null]
    /\ pc' = [pc EXCEPT ![p] = "failed"]
    /\ response' = [response EXCEPT ![p] = [status |-> 500]]
    /\ UNCHANGED <<dbCompany, dbStatements, dbSectors, dbIndustries, existing,
                   fullData, price, view, envVars, pureVars, valuationVars, searchVars>>

\* Time passes: past the next earnings date, or past the 90-day limit.
Tick(days) ==
    /\ ticks < MaxTicks
    /\ clockDay' = clockDay + days
    /\ ticks' = ticks + 1
    /\ UNCHANGED <<dbVars, reqVars, fetchCount, pureVars, valuationVars, searchVars>>

\* The company as a full fetch on day 0 stored it, with the statements of
\* that fetch (fetch 0).
StoredCompany(nextEarnings) ==
    CompanyRow(0, [id |-> 0, sector |-> Null, category |-> Null, price |-> 1,
                   nextEarnings |-> nextEarnings, lastFullFetch |-> Date(0, 0)], 0)

ServerStart ==
    /\ \/ /\ dbCompany = Null
          /\ dbStatements = NoStatements
       \/ /\ dbCompany \in {StoredCompany(ne) : ne \in {Null, Date(1, 0)}}
          /\ dbStatements = [k \in Kinds |-> {[companyId |-> 0, fetch |-> 0]}]
    /\ dbSectors = {}
    /\ dbIndustries = {}
    /\ lock = 0
    /\ pc = [p \in Procs |-> "idle"]
    /\ existing = [p \in Procs |-> Null]
    /\ fullData = [p \in Procs |-> Null]
    /\ price = [p \in Procs |-> 0]
    /\ tx = [p \in Procs |-> Null]
    /\ view = [p \in Procs |-> Null]
    /\ response = [p \in Procs |-> Null]
    /\ clockDay = 0
    /\ ticks = 0
    /\ fetchCount = 0

ServerIdle ==
    /\ dbCompany = Null
    /\ dbStatements = NoStatements
    /\ dbSectors = {}
    /\ dbIndustries = {}
    /\ lock = 0
    /\ pc = <<>>
    /\ existing = <<>>
    /\ fullData = <<>>
    /\ price = <<>>
    /\ tx = <<>>
    /\ view = <<>>
    /\ response = <<>>
    /\ clockDay = 0
    /\ ticks = 0
    /\ fetchCount = 0


-----------------------------------------------------------------------------
(* valuation handlers on the database: getValuationById, createValuation,
   updateValuation, deleteValuation and getSensitivityAnalysis behind the
   validation middleware of the valuation routes.

   Every statement runs on the pool connection, outside a transaction: it
   sees and changes the committed rows.  Every await is one step.  Rates are
   whole percents, which numeric(5, 2), parseFloat and parseInt keep as they
   are.  scenarioName, notes and the timestamps of a row play no part and are
   left out. *)

MaxValuationRequests == 2

ValProcs == 1..MaxValuationRequests

\* The companies table as the valuation handlers find it.
ValuationCompanies == {[id |-> 1, ticker |-> "AAA"], [id |-> 2, ticker |-> "BBB"]}

\* select().from(companies).where(eq(companies.ticker, ticker)).limit(1)
selectCompany(ticker) ==
    IF \E c \in ValuationCompanies : c.ticker = ticker
    THEN CHOOSE c \in ValuationCompanies : c.ticker = ticker
    ELSE Null

\* Number.prototype.toFixed(2): the nearest multiple of 1/100, a tie going
\* away from 0; NaN and the Infinities keep their names.
toFixed2(x) ==
    IF x.d = 0 THEN x
    ELSE Rat(Sign(x.n) * ((200 * Abs(x.n) + x.d) \div (2 * x.d)), 100)

\* The derived columns as both handlers store them: Math.round of the four
\* totals and toFixed(2) of the per-share value.
derivedColumns(calculation) ==
    [totalDiscountedFcf |-> MathRound(calculation.totalDiscountedFcf),
     perpetuityValue |-> MathRound(calculation.perpetuityValue),
     discountedPerpetuityValue |-> MathRound(calculation.discountedPerpetuityValue),
     totalEquityValue |-> MathRound(calculation.totalEquityValue),
     intrinsicValuePerShare |-> toFixed2(calculation.intrinsicValuePerShare)]

\* A row of the valuations table.
ValuationRow(id, companyId, inputs, derived) ==
    [id |-> id, companyId |-> companyId,
     discountRate |-> inputs.discountRate,
     perpetualGrowthRate |-> inputs.perpetualGrowthRate,
     sharesOutstanding |-> inputs.sharesOutstanding,
     fcf |-> inputs.fcfProjections,
     derived |-> derived]

\* The calculator's input read from the columns of a row.
InputsOf(row) ==
    [fcfProjections |-> row.fcf, discountRate |-> row.discountRate,
     perpetualGrowthRate |-> row.perpetualGrowthRate,
     sharesOutstanding |-> row.sharesOutstanding]

\* The where clause of the four handlers that take an id and ignore the ticker.
ownValuationsAnyCompany(id, companyId) == {v \in valuations : v.id = id}

\* where(and(eq(valuations.id, valuationId), eq(valuations.companyId, company.id)))
ownValuations(id, companyId) ==
    {v \in valuations : v.id = id /\ v.companyId = companyId}

\* A field of a request body that is present.
Given(v) == [value |-> v]

\* z.number().min(0.01).max(50).positive() on a whole percent.
IsDiscountRate(v) == v \in Int /\ v >= 1 /\ v <= 50

\* z.number().min(0).max(10).positive()
IsGrowthRate(v) == v \in Int /\ v > 0 /\ v <= 10

\* z.number().int().positive()
IsShareCount(v) == v \in Int /\ v > 0

\* createValuationSchema: every field required, and the refinement
\* discountRate > perpetualGrowthRate.
createValuationSchema(body) ==
    /\ body.discountRate # Omitted /\ IsDiscountRate(body.discountRate.value)
    /\ body.perpetualGrowthRate # Omitted /\ IsGrowthRate(body.perpetualGrowthRate.value)
    /\ body.sharesOutstanding # Omitted /\ IsShareCount(body.sharesOutstanding.value)
    /\ \A y \in 1..Years : body.fcf[y] # Omitted /\ body.fcf[y].value \in Int
    /\ body.discountRate.value > body.perpetualGrowthRate.value

\* updateValuationSchema: every field optional, no refinement.
updateValuationSchema(body) ==
    /\ body.discountRate # Omitted => IsDiscountRate(body.discountRate.value)
    /\ body.perpetualGrowthRate # Omitted => IsGrowthRate(body.perpetualGrowthRate.value)
    /\ body.sharesOutstanding # Omitted => IsShareCount(body.sharesOutstanding.value)
    /\ \A y \in 1..Years : body.fcf[y] # Omitted => body.fcf[y].value \in Int

\* validateParams and validateBody of the route: does the request reach the
\* handler?
passesValidation(request) ==
    IF request.handler = "createValuation" THEN createValuationSchema(request.body)
    ELSE IF request.handler = "updateValuation" THEN updateValuationSchema(request.body)
    ELSE TRUE

\* a ?? b, and `if (a !== undefined) updateData.x = a` on a column holding b.
Coalesce(a, b) == IF a # Omitted THEN a.value ELSE b

\* updateValuation, lines 1189-1211: the calculator's input merged from the
\* body and the row that was selected.
mergedInputs(body, row) ==
    [fcfProjections |-> [y \in 1..Years |-> Coalesce(body.fcf[y], row.fcf[y])],
     discountRate |-> Coalesce(body.discountRate, row.discountRate),
     perpetualGrowthRate |-> Coalesce(body.perpetualGrowthRate, row.perpetualGrowthRate),
     sharesOutstanding |-> Coalesce(body.sharesOutstanding, row.sharesOutstanding)]

\* updateValuation, lines 1166-1220 and .set(updateData): the columns named in
\* the body and the derived columns of the calculation are written, the
\* other columns of the row stay.
setUpdateData(row, body, calculation) ==
    [row EXCEPT !.discountRate = Coalesce(body.discountRate, @),
                !.perpetualGrowthRate = Coalesce(body.perpetualGrowthRate, @),
                !.sharesOutstanding = Coalesce(body.sharesOutstanding, @),
                !.fcf = [y \in 1..Years |-> Coalesce(body.fcf[y], @[y])],
                !.derived = derivedColumns(calculation)]

\* createValuation, lines 1014-1041: the checks of the handler itself.
missingFields(body) ==
    IF \/ body.discountRate \in {Omitted, Given(0)}
       \/ body.perpetualGrowthRate \in {Omitted, Given(0)}
       \/ body.sharesOutstanding \in {Omitted, Given(0)}
    THEN "Missing required fields"
    ELSE IF \E y \in 1..Years : body.fcf[y] = Omitted THEN "Missing FCF projections"
    ELSE ""

\* createValuation, lines 1044-1049: the calculator's input taken from the body.
bodyInputs(body) ==
    [fcfProjections |-> [y \in 1..Years |-> body.fcf[y].value],
     discountRate |-> body.discountRate.value,
     perpetualGrowthRate |-> body.perpetualGrowthRate.value,
     sharesOutstanding |-> body.sharesOutstanding.value]

Answer(status, message) == [status |-> status, message |-> message]

AnswerRow(status, row) == [status |-> status, valuation |-> row]

ErrInvalidRequest == "Invalid request"
ErrCompanyNotFound == "Company not found"
ErrValuationNotFound == "Valuation not found"
ErrDatabase == "connection terminated"

NoFcf == [y \in 1..Years |-> Omitted]

NoChange ==
    [discountRate |-> Omitted, perpetualGrowthRate |-> Omitted,
     sharesOutstanding |-> Omitted, fcf |-> NoFcf]

CreateBodies ==
    {[discountRate |-> Given(d), perpetualGrowthRate |-> Given(10),
      sharesOutstanding |-> Given(s),
      fcf |-> [y \in 1..Years |-> Given(1)]] : d \in {10, 50}, s \in {0, 2}}

UpdateBodies ==
    {[NoChange EXCEPT !.discountRate = Given(10)],
     [NoChange EXCEPT !.sharesOutstanding = Given(2)],
     [NoChange EXCEPT !.fcf[1] = Given(3)]}

ValuationRequest(handler, ticker, id, body) ==
    [handler |-> handler, ticker |-> ticker, id |-> id, body |-> body]

\* The requests a client sends: company AAA is addressed with its own
\* valuation 1, with valuation 2 of company BBB and with the id of a row
\* created meanwhile; ZZZ is no company.
ValuationRequests ==
    {ValuationRequest("createValuation", "AAA", 0, b) : b \in CreateBodies}
    \cup {ValuationRequest("updateValuation", "AAA", id, b) : id \in {1, 2}, b \in UpdateBodies}
    \cup {ValuationRequest("deleteValuation", "AAA", id, NoChange) : id \in {1, 2}}
    \cup {ValuationRequest("getValuationById", t, 1, NoChange) : t \in {"AAA", "ZZZ"}}
    \cup {ValuationRequest("getValuationById", "AAA", id, NoChange) : id \in {2, 3}}
    \cup {ValuationRequest("getSensitivityAnalysis", "AAA", id, NoChange) : id \in {1, 2}}

\* The router: validateParams and validateBody answer 400 or hand the
\* request to its handler, which issues its first query.
RouteValuation(p) ==
    /\ valPc[p] = "idle"
    /\ \E request \in ValuationRequests :
          /\ valRequest' = [valRequest EXCEPT ![p] = request]
          /\ IF passesValidation(request)
             THEN /\ valPc' = [valPc EXCEPT ![p] = "select_company"]
                  /\ UNCHANGED valResponse
             ELSE /\ valPc' = [valPc EXCEPT ![p] = "done"]
                  /\ valResponse' = [valResponse EXCEPT ![p] = Answer(400, ErrInvalidRequest)]
    /\ UNCHANGED <<valuations, valuationIds, valCompany, existingValuation,
                   pureVars, serverVars, searchVars>>

\* What createValuation does between its SELECT and its INSERT: 400 for a
\* missing field, 500 from the catch when the calculator throws, or on to
\* the INSERT.
createValuationChecked(body, calculation) ==
    IF missingFields(body) # "" THEN Answer(400, missingFields(body))
    ELSE IF calculation.status = "error" THEN Answer(500, calculation.message)
    ELSE Null

createValuationChecks(body) ==
    createValuationChecked(body, IF missingFields(body) # "" THEN Null
                                 ELSE calculateDCFValuation(bodyInputs(body)))

\* The await the handler stands at once its company is found.
AfterCompany(request) ==
    IF request.handler = "createValuation"
    THEN (IF createValuationChecks(request.body) = Null THEN "insert" ELSE "done")
    ELSE IF request.handler = "deleteValuation" THEN "delete"
    ELSE "select_valuation"

\* The first query of every handler: the company of the ticker, 404 without
\* it; createValuation then runs its checks and the calculator.
SelectCompany(p) ==
    /\ valPc[p] = "select_company"
    /\ valCompany' = [valCompany EXCEPT ![p] = selectCompany(valRequest[p].ticker)]
    /\ IF selectCompany(valRequest[p].ticker) = Null
       THEN /\ valPc' = [valPc EXCEPT ![p] = "done"]
            /\ valResponse' = [valResponse EXCEPT ![p] = Answer(404, ErrCompanyNotFound)]
       ELSE /\ valPc' = [valPc EXCEPT ![p] = AfterCompany(valRequest[p])]
            /\ valResponse' =
                   IF valRequest[p].handler = "createValuation"
                   THEN [valResponse EXCEPT ![p] = createValuationChecks(valRequest[p].body)]
                   ELSE valResponse
    /\ UNCHANGED <<valuations, valuationIds, valRequest, existingValuation,
                   pureVars, serverVars, searchVars>>

\* createValuation, lines 1052-1096: INSERT ... RETURNING and 201.
InsertValuation(p) ==
    /\ valPc[p] = "insert"
    /\ valuationIds' = valuationIds + 1
    /\ valuations' = valuations \cup
           {ValuationRow(valuationIds + 1, valCompany[p].id, bodyInputs(valRequest[p].body),
                         derivedColumns(calculateDCFValuation(bodyInputs(valRequest[p].body))))}
    /\ valResponse' = [valResponse EXCEPT ![p] =
           AnswerRow(201, ValuationRow(valuationIds + 1, valCompany[p].id,
                                       bodyInputs(valRequest[p].body),
                                       derivedColumns(calculateDCFValuation(
                                                          bodyInputs(valRequest[p].body)))))]
    /\ valPc' = [valPc EXCEPT ![p] = "done"]
    /\ UNCHANGED <<valRequest, valCompany, existingValuation, pureVars, serverVars, searchVars>>

\* What a handler does with the row its second query returned:
\* getValuationById and getSensitivityAnalysis answer with it (the table of
\* getSensitivityAnalysis is generateSensitivityAnalysis of that row's
\* columns); updateValuation runs the calculator on the merged input, and the
\* catch answers 500 when it throws.
answerForRow(request, row, calculation) ==
    IF request.handler # "updateValuation" THEN AnswerRow(200, row)
    ELSE IF calculation.status = "error" THEN Answer(500, calculation.message)
    ELSE Null

answerFor(request, row) ==
    answerForRow(request, row,
                 IF request.handler # "updateValuation" THEN Null
                 ELSE calculateDCFValuation(mergedInputs(request.body, row)))

\* The second query of getValuationById, updateValuation and
\* getSensitivityAnalysis: the valuation of that id and company, 404 without it.
SelectValuation(p) ==
    /\ valPc[p] = "select_valuation"
    /\ IF ownValuations(valRequest[p].id, valCompany[p].id) = {}
       THEN /\ valPc' = [valPc EXCEPT ![p] = "done"]
            /\ valResponse' = [valResponse EXCEPT ![p] = Answer(404, ErrValuationNotFound)]
            /\ UNCHANGED existingValuation
       ELSE \E row \in ownValuations(valRequest[p].id, valCompany[p].id) :
               /\ existingValuation' = [existingValuation EXCEPT ![p] = row]
               /\ valResponse' = [valResponse EXCEPT ![p] = answerFor(valRequest[p], row)]
               /\ valPc' = [valPc EXCEPT ![p] =
                               IF answerFor(valRequest[p], row) = Null THEN "update" ELSE "done"]
    /\ UNCHANGED <<valuations, valuationIds, valRequest, valCompany,
                   pureVars, serverVars, searchVars>>

\* The rows after UPDATE valuations SET updateData WHERE id = valuationId.
updatedRows(id, body, calculation) ==
    {IF v.id = id THEN setUpdateData(v, body, calculation) ELSE v : v \in valuations}

\* updateValuation, lines 1223-1233: the UPDATE of the row of that id, with
\* the data computed from the row selected before, and 200 with the row
\* returned (none when it is gone).
UpdateValuationRow(p) ==
    /\ valPc[p] = "update"
    /\ valuations' = updatedRows(valRequest[p].id, valRequest[p].body,
                                 calculateDCFValuation(
                                     mergedInputs(valRequest[p].body, existingValuation[p])))
    /\ valResponse' = [valResponse EXCEPT ![p] =
           AnswerRow(200, {v \in valuations' : v.id = valRequest[p].id})]
    /\ valPc' = [valPc EXCEPT ![p] = "done"]
    /\ UNCHANGED <<valuationIds, valRequest, valCompany, existingValuation,
                   pureVars, serverVars, searchVars>>

\* deleteValuation, lines 1266-1286: DELETE ... RETURNING, 404 when no row
\* went.
DeleteValuationRow(p) ==
    /\ valPc[p] = "delete"
    /\ valuations' = valuations \ ownValuations(valRequest[p].id, valCompany[p].id)
    /\ valResponse' = [valResponse EXCEPT ![p] =
           IF ownValuations(valRequest[p].id, valCompany[p].id) = {}
           THEN Answer(404, ErrValuationNotFound)
           ELSE AnswerRow(200, ownValuations(valRequest[p].id, valCompany[p].id))]
    /\ valPc' = [valPc EXCEPT ![p] = "done"]
    /\ UNCHANGED <<valuationIds, valRequest, valCompany, existingValuation,
                   pureVars, serverVars, searchVars>>

\* A query rejects (the database fails): the catch of the handler answers
\* 500; createValuation and updateValuation pass the Error's message on.
FailValuation(p) ==
    /\ valPc[p] \in {"select_company", "select_valuation", "insert", "update", "delete"}
    /\ valPc' = [valPc EXCEPT ![p] = "failed"]
    /\ valResponse' = [valResponse EXCEPT ![p] =
           Answer(500, IF valRequest[p].handler \in {"createValuation", "updateValuation"}
                       THEN ErrDatabase ELSE "Internal server error")]
    /\ UNCHANGED <<valuations, valuationIds, valRequest, valCompany, existingValuation,
                   pureVars, serverVars, searchVars>>

\* A valuation as createValuation stored it: 50% and 10% on one share, ten
\* projections of 1.
StoredValuation(id, companyId) ==
    ValuationRow(id, companyId,
                 [fcfProjections |-> FcfVector(1, 1, 0, Years), discountRate |-> 50,
                  perpetualGrowthRate |-> 10, sharesOutstanding |-> 1],
                 derivedColumns(calculateDCFValuation(
                     [fcfProjections |-> FcfVector(1, 1, 0, Years), discountRate |-> 50,
                      perpetualGrowthRate |-> 10, sharesOutstanding |-> 1])))

ValuationStart ==
    /\ valuations = {StoredValuation(1, 1), StoredValuation(2, 2)}
    /\ valuationIds = 2
    /\ valPc = [p \in ValProcs |-> "idle"]
    /\ valRequest = [p \in ValProcs |-> Null]
    /\ valCompany = [p \in ValProcs |-> Null]
    /\ existingValuation = [p \in ValProcs |-> Null]
    /\ valResponse = [p \in ValProcs |-> Null]

ValuationIdle ==
    /\ valuations = {}
    /\ valuationIds = 0
    /\ valPc = <<>>
    /\ valRequest = <<>>
    /\ valCompany = <<>>
    /\ existingValuation = <<>>
    /\ valResponse = <<>>

-----------------------------------------------------------------------------
(* company.controller: searchCompany.

   A text is a sequence of characters; the companies table holds ticker and
   name (null allowed) of each row.  Every await is one step. *)

SearchLimit == 10

\* Case folding of ILIKE on the letters of the model.
Lower(c) == IF c = "A" THEN "a" ELSE IF c = "B" THEN "b" ELSE c

\* text LIKE pat ignoring case: % stands for any run of characters, _ for
\* any one character.
RECURSIVE Like(_, _)
Like(text, pat) ==
    IF pat = <<>> THEN text = <<>>
    ELSE IF Head(pat) = "%"
         THEN Like(text, Tail(pat)) \/ (text # <<>> /\ Like(Tail(text), pat))
         ELSE /\ text # <<>>
              /\ Head(pat) = "_" \/ Lower(Head(pat)) = Lower(Head(text))
              /\ Like(Tail(text), Tail(pat))

\* ilike(column, pattern): a null column matches nothing.
ilike(column, pattern) == column # Null /\ Like(column.value, pattern)

\* `%${term}%`
PatternOf(t) == <<"%">> \o t \o <<"%">>

\* where(or(ilike(companies.ticker, pattern), ilike(companies.name, pattern)))
matchingCompanies(t) ==
    {c \in searchCompanies : ilike(c.ticker, PatternOf(t)) \/ ilike(c.name, PatternOf(t))}

\* limit(10) on a query without ORDER BY: any 10 of the rows, or all of
\* them when there are fewer.
limited(rows) ==
    {some \in SUBSET rows :
        Cardinality(some) = IF Cardinality(rows) < SearchLimit
                            THEN Cardinality(rows) ELSE SearchLimit}

\* The database answer with every search sent on to Yahoo unless the page of
\* results is full.
answersFromDbWhenFull(rows) == Cardinality(rows) >= SearchLimit

\* if (dbResults.length >= 1)
answersFromDb(rows) == Cardinality(rows) >= 1

SearchResult(rows) == [rows |-> rows]

SearchAnswer(status, rows) == [status |-> status, body |-> rows]

\* searchCompany, lines 24-39: the query on companies; with at least one row
\* the rows are the response.
QueryCompanies ==
    /\ searchPc = "query"
    /\ \E rows \in limited(matchingCompanies(term)) :
          /\ dbResults' = SearchResult(rows)
          /\ IF answersFromDb(rows)
             THEN /\ searchResponse' = SearchAnswer(200, rows)
                  /\ searchPc' = "done"
             ELSE /\ UNCHANGED searchResponse
                  /\ searchPc' = "yahoo"
    /\ UNCHANGED <<searchCompanies, term, yahooSearches, pureVars, serverVars, valuationVars>>

Quote(symbol, name) == [ticker |-> Given(symbol), name |-> Given(name)]

\* What Yahoo may answer: nothing, or the equities it knows.
YahooAnswers == {{}, {Quote(<<"B", "A">>, <<"B", "a">>)}}

\* searchCompany, lines 41-43: searchTerm(term) and its results as the
\* response.
SearchYahoo ==
    /\ searchPc = "yahoo"
    /\ yahooSearches' = Append(yahooSearches, term)
    /\ \E yahooResults \in YahooAnswers : searchResponse' = SearchAnswer(200, yahooResults)
    /\ searchPc' = "done"
    /\ UNCHANGED <<searchCompanies, term, dbResults, pureVars, serverVars, valuationVars>>

\* An await rejects (the database or Yahoo fails): 500 from the catch.
FailSearch ==
    /\ searchPc \in {"query", "yahoo"}
    /\ searchResponse' = [status |-> 500, error |-> "Searching company failed"]
    /\ searchPc' = "failed"
    /\ UNCHANGED <<searchCompanies, term, dbResults, yahooSearches,
                   pureVars, serverVars, valuationVars>>

Company(ticker, name) == [ticker |-> Given(ticker), name |-> name]

\* Eleven companies: more rows than one page of results.
ManyCompanies ==
    {Company(t, Null) : t \in {<<"A">>, <<"B">>, <<"A", "A">>, <<"A", "B">>, <<"B", "A">>,
                               <<"B", "B">>, <<"A", "A", "A">>, <<"A", "A", "B">>,
                               <<"A", "B", "A">>, <<"A", "B", "B">>, <<"B", "B", "B">>}}

SearchTables ==
    {{}, {Company(<<"A", "B">>, Given(<<"B", "a">>))},
     {Company(<<"A", "B">>, Null), Company(<<"B">>, Given(<<"a", "b">>))},
     ManyCompanies}

MaxTermLen == 2

SearchTerms == UNION {[1..len -> {"a", "B", "%", "_"}] : len \in 0..MaxTermLen}

SearchStart ==
    /\ searchCompanies \in SearchTables
    /\ term \in SearchTerms
    /\ searchPc = "query"
    /\ dbResults = Unread
    /\ yahooSearches = <<>>
    /\ searchResponse = Null

SearchIdle ==
    /\ searchCompanies = {}
    /\ term = <<>>
    /\ searchPc = "idle"
    /\ dbResults = Unread
    /\ yahooSearches = <<>>
    /\ searchResponse = Null

-----------------------------------------------------------------------------
(* Specifications: one per component, the other components at rest *)

\* calculateDCFValuation
Init == DCFStart /\ SensIdle /\ PolicyIdle /\ ProjIdle /\ ServerIdle
    /\ ValuationIdle /\ SearchIdle

Next == CallDCF

Spec == Init /\ [][Next]_vars

SpecDCF == Spec

\* generateSensitivityAnalysis
InitSens == DCFIdle /\ SensStart /\ PolicyIdle /\ ProjIdle /\ ServerIdle
    /\ ValuationIdle /\ SearchIdle

NextSens == CallSens

SpecSens == InitSens /\ [][NextSens]_vars

\* shouldFetchFullData
InitPolicy == DCFIdle /\ SensIdle /\ PolicyStart /\ ProjIdle /\ ServerIdle
    /\ ValuationIdle /\ SearchIdle

NextPolicy == CallPolicy

SpecPolicy == InitPolicy /\ [][NextPolicy]_vars

\* projectFCFWithGrowth
InitProj == DCFIdle /\ SensIdle /\ PolicyIdle /\ ProjStart /\ ServerIdle
    /\ ValuationIdle /\ SearchIdle

NextProj == CallProj

SpecProj == InitProj /\ [][NextProj]_vars

\* The company handlers on the database
InitServer == DCFIdle /\ SensIdle /\ PolicyIdle /\ ProjIdle /\ ServerStart
    /\ ValuationIdle /\ SearchIdle

NextServer ==
    \/ \E p \in Procs : GetCompanyFind(p)
    \/ \E p \in Procs : FetchFullData(p)
    \/ \E p \in Procs : FindOrCreateSector(p)
    \/ \E p \in Procs : FindOrCreateIndustry(p)
    \/ \E p \in Procs : UpdateCompany(p)
    \/ \E p \in Procs, k \in Kinds : DeleteStatements(p, k)
    \/ \E p \in Procs : InsertCompany(p)
    \/ \E p \in Procs, k \in Kinds : InsertStatements(p, k)
    \/ \E p \in Procs : Commit(p)
    \/ \E p \in Procs : Reread(p)
    \/ \E p \in Procs : FetchPrice(p)
    \/ \E p \in Procs : UpdatePrice(p)
    \/ \E p \in Procs : FinancialStatementsFind(p)
    \/ \E p \in Procs : ReadCompany(p)
    \/ \E p \in Procs, k \in Kinds : ReadStatements(p, k)
    \/ \E p \in Procs : Respond(p)
    \/ \E p \in Procs : Fail(p)
    \/ \E days \in {2, StaleDays + 1} : Tick(days)

SpecServer == InitServer /\ [][NextServer]_vars

\* The valuation handlers on the database
InitValuation == DCFIdle /\ SensIdle /\ PolicyIdle /\ ProjIdle /\ ServerIdle
    /\ ValuationStart /\ SearchIdle

NextValuation ==
    \/ \E p \in ValProcs : RouteValuation(p)
    \/ \E p \in ValProcs : SelectCompany(p)
    \/ \E p \in ValProcs : SelectValuation(p)
    \/ \E p \in ValProcs : InsertValuation(p)
    \/ \E p \in ValProcs : UpdateValuationRow(p)
    \/ \E p \in ValProcs : DeleteValuationRow(p)
    \/ \E p \in ValProcs : FailValuation(p)

SpecValuation == InitValuation /\ [][NextValuation]_vars

\* searchCompany
InitSearch == DCFIdle /\ SensIdle /\ PolicyIdle /\ ProjIdle /\ ServerIdle
    /\ ValuationIdle /\ SearchStart

NextSearch == QueryCompanies \/ SearchYahoo \/ FailSearch

SpecSearch == InitSearch /\ [][NextSearch]_vars

-----------------------------------------------------------------------------
(* Claims about calculateDCFValuation *)

RECURSIVE IntPow(_, _)
IntPow(b, k) == IF k = 0 THEN 1 ELSE b * IntPow(b, k - 1)

\* (100 + R) / 100 in lowest terms, as numerator and denominator.
GrowthFactor(rate) == Rat(100 + rate, 100)

\* x * (p/q)^k = y, for finite x and y and p # 0: x is multiplied by p/q k
\* times, in lowest terms after each factor, and compared with y by
\* cross-multiplication.
RECURSIVE TimesPowerIs(_, _, _, _)
TimesPowerIs(x, f, k, y) ==
    IF k = 0 THEN x.n * y.d = y.n * x.d
    ELSE TimesPowerIs(Rat(x.n * f.n, x.d * f.d), f, k - 1, y)

\* x is y divided by f^k: the exact quotient, or not finite when f is 0.
IsQuotientByPower(x, y, f, k) ==
    IF f.n = 0 \/ ~IsFinite(y) THEN ~IsFinite(x)
    ELSE IsFinite(x) /\ TimesPowerIs(x, f, k, y)

\* C1: for every input the validation accepts, discountedFcfs[n] is
\* FCF[n] / (1 + R/100)^n for each year n in 1..10, perpetuityValue is
\* FCF[10] * (1 + g/100) / (R/100 - g/100), taken from the last projection, and
\* discountedPerpetuityValue is perpetuityValue / (1 + R/100)^10.
C1_DCFFormulas ==
    dcfOutcome.status = "ok" =>
        LET R == dcfInputs.discountRate
            g == dcfInputs.perpetualGrowthRate
            fcf == dcfInputs.fcfProjections
            pv == dcfOutcome.perpetuityValue
        IN  /\ Len(dcfOutcome.discountedFcfs) = 10
            /\ \A n \in 1..10 :
                   IsQuotientByPower(dcfOutcome.discountedFcfs[n], Num(fcf[n]),
                                     GrowthFactor(R), n)
            /\ IsFinite(pv)
            /\ pv.n * (R - g) = fcf[10] * (100 + g) * pv.d
            /\ IsQuotientByPower(dcfOutcome.discountedPerpetuityValue, pv,
                                 GrowthFactor(R), 10)

\* C1 witness: an accepted input whose projections differ by year, discounted
\* at 50% with a terminal growth of -50%.
C1_Witness ==
    /\ dcfOutcome.status = "ok"
    /\ dcfInputs.discountRate = 50
    /\ dcfInputs.perpetualGrowthRate = -50
    /\ dcfInputs.fcfProjections[9] = 2
    /\ dcfInputs.fcfProjections[10] = 3
    /\ dcfOutcome.discountedFcfs[1] = Rat(4, 3)
    /\ dcfOutcome.perpetuityValue = Rat(3, 2)

\* C2: the validation runs in the order projection count, rate relationship,
\* share count; the error is the one of the first rule violated in that order,
\* and a failed call carries no result field.
C2_ValidationOrder ==
    dcfOutcome # Pending =>
        LET badCount == Len(dcfInputs.fcfProjections) # 10
            badRates == dcfInputs.discountRate <= dcfInputs.perpetualGrowthRate
            badShares == dcfInputs.sharesOutstanding <= 0
        IN  /\ badCount => dcfOutcome = Thrown(ErrProjectionCount)
            /\ ~badCount /\ badRates => dcfOutcome = Thrown(ErrRateRelationship)
            /\ ~badCount /\ ~badRates /\ badShares => dcfOutcome = Thrown(ErrShareCount)
            /\ ~badCount /\ ~badRates /\ ~badShares => dcfOutcome.status = "ok"
            /\ dcfOutcome.status = "error" => DOMAIN dcfOutcome = {"status", "message"}

\* C2 witness: all three rules violated at once, the projection count reported.
C2_Witness ==
    /\ Len(dcfInputs.fcfProjections) = 2
    /\ dcfInputs.discountRate < dcfInputs.perpetualGrowthRate
    /\ dcfInputs.sharesOutstanding < 0
    /\ dcfOutcome = Thrown(ErrProjectionCount)

\* C3: with exactly 10 projections, a discount rate <= the growth rate (equal
\* rates included) fails with the rate-relationship error.
C3_RateRelationship ==
    /\ dcfOutcome # Pending
    /\ Len(dcfInputs.fcfProjections) = 10
    /\ ~(dcfInputs.perpetualGrowthRate < dcfInputs.discountRate)
    => /\ dcfOutcome.status = "error"
       /\ dcfOutcome.message = ErrRateRelationship

\* C3 witness: equal rates, valid otherwise, rejected.
C3_Witness ==
    /\ Len(dcfInputs.fcfProjections) = 10
    /\ dcfInputs.discountRate = 50
    /\ dcfInputs.perpetualGrowthRate = 50
    /\ dcfInputs.sharesOutstanding = 1
    /\ dcfOutcome = Thrown(ErrRateRelationship)

-----------------------------------------------------------------------------
(* Claims about generateSensitivityAnalysis *)

IsNumber(x) == DOMAIN x = {"n", "d"} /\ x.n \in Int /\ x.d \in Nat

\* The calculator's own verdict on one rate pair of the call.
CellCalc(d, g) ==
    calculateDCFValuation([fcfProjections |-> sensInputs.fcfProjections,
                           discountRate |-> d, perpetualGrowthRate |-> g,
                           sharesOutstanding |-> sensInputs.sharesOutstanding])

\* C4: the returned matrix holds a number at [d%][g%] for every d of
\* discountRates and every g of growthRates, duplicates in either list included.
C4_MatrixComplete ==
    sensOutcome # Pending =>
        /\ sensOutcome.status = "ok"
        /\ \A i \in 1..Len(sensInputs.discountRates) :
           \A j \in 1..Len(sensInputs.growthRates) :
               LET dl == Label(sensInputs.discountRates[i])
                   gl == Label(sensInputs.growthRates[j])
               IN  /\ dl \in DOMAIN sensOutcome.matrix
                   /\ gl \in DOMAIN sensOutcome.matrix[dl]
                   /\ IsNumber(sensOutcome.matrix[dl][gl])

\* C4 witness: a duplicated discount rate and two growth rates, all four
\* coordinates filled.
C4_Witness ==
    /\ sensOutcome # Pending
    /\ sensInputs.discountRates = <<50, 50>>
    /\ sensInputs.growthRates = <<0, -100>>
    /\ sensInputs.sharesOutstanding = 3
    /\ DOMAIN sensOutcome.matrix = {"50%"}
    /\ DOMAIN sensOutcome.matrix["50%"] = {"0%", "-100%"}

\* C5: the generator never lets a failure of the calculator escape: it returns
\* a matrix for any projections, share count and rate lists, and every cell
\* whose calculateDCFValuation call failed holds 0.
C5_FailuresSwallowed ==
    sensOutcome # Pending =>
        /\ sensOutcome.status = "ok"
        /\ \A i \in 1..Len(sensInputs.discountRates) :
           \A j \in 1..Len(sensInputs.growthRates) :
               LET d == sensInputs.discountRates[i]
                   g == sensInputs.growthRates[j]
               IN  CellCalc(d, g).status = "error"
                       => sensOutcome.matrix[Label(d)][Label(g)] = Num(0)

\* C5 witness: 9 projections and no shares, every call fails, every cell is 0.
C5_Witness ==
    /\ sensOutcome # Pending
    /\ Len(sensInputs.fcfProjections) = 9
    /\ sensInputs.sharesOutstanding = 0
    /\ sensInputs.discountRates = <<50, 0>>
    /\ sensInputs.growthRates = <<0, -100>>
    /\ sensOutcome.status = "ok"
    /\ sensOutcome.matrix["50%"]["-100%"] = Num(0)

\* C6: every cell whose growth rate is greater than or equal to its discount
\* rate is exactly 0.
C6_InvalidPairsZero ==
    sensOutcome # Pending /\ sensOutcome.status = "ok" =>
        \A i \in 1..Len(sensInputs.discountRates) :
        \A j \in 1..Len(sensInputs.growthRates) :
            LET d == sensInputs.discountRates[i]
                g == sensInputs.growthRates[j]
            IN  g >= d => /\ Label(d) \in DOMAIN sensOutcome.matrix
                          /\ Label(g) \in DOMAIN sensOutcome.matrix[Label(d)]
                          /\ sensOutcome.matrix[Label(d)][Label(g)] = Num(0)

\* C6 witness: positive projections; the pair with equal rates is 0 beside a
\* valid pair that is not.
C6_Witness ==
    /\ sensOutcome # Pending
    /\ sensInputs.fcfProjections = FcfVector(3, 3, 0, Years)
    /\ sensInputs.sharesOutstanding = 3
    /\ sensInputs.discountRates = <<50>>
    /\ sensInputs.growthRates = <<50, 0>>
    /\ sensOutcome.matrix["50%"]["50%"] = Num(0)
    /\ sensOutcome.matrix["50%"]["0%"] # Num(0)

-----------------------------------------------------------------------------
(* Claims about shouldFetchFullData *)

\* The Date k days after t.
DaysAfter(t, k) == Date(t.day + k, t.ms)

FutureEarnings ==
    /\ policyCompany # Null
    /\ policyCompany.nextEarnings # Null
    /\ policyCompany.lastFullFetch # Null
    /\ DateLess(policyNow, policyCompany.nextEarnings)

-----------------------------------------------------------------------------
(* Claims about projectFCFWithGrowth *)

\* round(x * (100 + rate) / 100) for an integer x, a tie going up.
GrownAndRounded(x, rate) == (2 * x * (100 + rate) + 100) \div 200

\* C9 as stated: each output element is the previous output element (baseFcf
\* for the first) times (1 + growthRate/100), rounded: the rounded value seeds
\* the next period.
C9_RoundedValueSeedsNext ==
    projOutcome # Pending =>
        \A k \in 1..Len(projOutcome.projections) :
            LET previous == IF k = 1 THEN projInputs.baseFcf
                            ELSE projOutcome.projections[k - 1].n
            IN  projOutcome.projections[k] =
                    Num(GrownAndRounded(previous, projInputs.growthRate))

\* C9 amended: output element k is baseFcf * (1 + growthRate/100)^k rounded to
\* the nearest integer (a tie going up): the unrounded running value seeds the
\* next period, and only the pushed copy is rounded.
C9_UnroundedValueSeedsNext ==
    projOutcome # Pending =>
        \A k \in 1..Len(projOutcome.projections) :
            LET f == GrowthFactor(projInputs.growthRate)
                p == projInputs.baseFcf * IntPow(f.n, k)
                q == IntPow(f.d, k)
            IN  projOutcome.projections[k] = Num((2 * p + q) \div (2 * q))

\* C9 witness: 1 grown at 50% is 1.5, 2.25, 3.375: 2, 2, 3 are pushed, where
\* the rounded seed would give 2, 3, 5.
C9_Witness ==
    /\ projOutcome # Pending
    /\ projInputs.baseFcf = 1
    /\ projInputs.growthRate = 50
    /\ projInputs.years = [value |-> 3]
    /\ projOutcome.projections = <<Num(2), Num(2), Num(3)>>

-----------------------------------------------------------------------------
(* Claims about the full refresh *)

\* The fetches whose rows of kind k the committed database holds for the
\* company.
StoredFetches(k) == {r.fetch : r \in RowsOf(dbStatements[k], dbCompany.id)}

\* Every committed state holds, for all three kinds, the rows of the one fetch
\* the company row was written from: no kind is empty or left behind.
CommittedStatementsOfOneFetch ==
    dbCompany # Null => \A k \in Kinds : StoredFetches(k) = {dbCompany.fetch}

\* Every answer that carries statements carries the three kinds of one fetch.
AnswersOfOneFetch ==
    \A p \in Procs :
        response[p] # Null /\ response[p].status = 200 =>
            \E f \in 0..MaxFetches :
                \A k \in Kinds : response[p].statements[k] = {f}

\* C10: a full refresh of an existing company is atomic: no state after a
\* failure at any step and no concurrent reader observes the company with its
\* old statements deleted and the new ones not inserted, or with only some of
\* the three statement kinds replaced.
C10_RefreshAtomic ==
    /\ CommittedStatementsOfOneFetch
    /\ AnswersOfOneFetch

-----------------------------------------------------------------------------
(* Claims about the result record of calculateDCFValuation *)

\* x as a count of 1/D, for a finite x whose denominator divides D.
Scaled(x, D) == x.n * (D \div x.d)

Divides(x, D) == IsFinite(x) /\ D % x.d = 0

\* The first n elements of s summed as counts of 1/D.
RECURSIVE SumScaled(_, _, _)
SumScaled(s, D, n) == IF n = 0 THEN 0 ELSE SumScaled(s, D, n - 1) + Scaled(s[n], D)

\* c counts of 1/D are more than the largest finite number.
TooLarge(c, D) ==
    \/ Abs(c) \div D > MaxValue
    \/ (Abs(c) \div D = MaxValue /\ Abs(c) % D > 0)

\* total is the sum c of finite addends, given as counts of 1/D: not finite
\* when the sum has overflowed, the exact sum otherwise.
IsSum(total, c, overflowed, D) ==
    IF overflowed THEN ~IsFinite(total)
    ELSE Divides(total, D) /\ Scaled(total, D) = c

\* A denominator every field of the result of the call divides: the tenth
\* power of the numerator of (100 + R)/100, times R - g, times the share count.
CommonDenominator ==
    IntPow(Abs(GrowthFactor(dcfInputs.discountRate).n), 10)
        * Abs(dcfInputs.discountRate - dcfInputs.perpetualGrowthRate)
        * dcfInputs.sharesOutstanding

\* C11: every result has exactly 10 discountedFcfs, totalDiscountedFcf is
\* their sum, totalEquityValue is totalDiscountedFcf + discountedPerpetuityValue
\* and intrinsicValuePerShare is totalEquityValue / sharesOutstanding.  The
\* sums are the sums of the number format: with a zero discount factor the
\* addends are not finite and neither are the sums, and a sum beyond the
\* largest finite number is not finite.
C11_ResultIdentities ==
    dcfOutcome.status = "ok" =>
        LET o == dcfOutcome
            D == CommonDenominator
        IN  /\ Len(o.discountedFcfs) = 10
            /\ IF GrowthFactor(dcfInputs.discountRate).n = 0
               THEN /\ \A n \in 1..10 : ~IsFinite(o.discountedFcfs[n])
                    /\ ~IsFinite(o.totalDiscountedFcf)
                    /\ ~IsFinite(o.totalEquityValue)
                    /\ ~IsFinite(o.intrinsicValuePerShare)
               ELSE /\ \A n \in 1..10 : Divides(o.discountedFcfs[n], D)
                    /\ Divides(o.discountedPerpetuityValue, D)
                    /\ IsSum(o.totalDiscountedFcf, SumScaled(o.discountedFcfs, D, 10),
                             \E n \in 1..10 :
                                 TooLarge(SumScaled(o.discountedFcfs, D, n), D),
                             D)
                    /\ IF IsFinite(o.totalDiscountedFcf)
                       THEN IsSum(o.totalEquityValue,
                                  Scaled(o.totalDiscountedFcf, D)
                                      + Scaled(o.discountedPerpetuityValue, D),
                                  TooLarge(Scaled(o.totalDiscountedFcf, D)
                                               + Scaled(o.discountedPerpetuityValue, D), D),
                                  D)
                       ELSE o.totalEquityValue = o.totalDiscountedFcf
                    /\ IF IsFinite(o.totalEquityValue)
                       THEN /\ Divides(o.intrinsicValuePerShare, D)
                            /\ Scaled(o.intrinsicValuePerShare, D)
                                   * dcfInputs.sharesOutstanding =
                                   Scaled(o.totalEquityValue, D)
                       ELSE o.intrinsicValuePerShare = o.totalEquityValue

\* C11 witness: projections 1,1,1,1,1,2,2,2,2,2 at R = 100 and g = 0 on 2
\* shares: the terminal value 2/1024 enters the equity value, halved per share.
C11_Witness ==
    /\ dcfOutcome.status = "ok"
    /\ dcfInputs.fcfProjections = FcfVector(1, 2, 5, 10)
    /\ dcfInputs.discountRate = 100
    /\ dcfInputs.perpetualGrowthRate = 0
    /\ dcfInputs.sharesOutstanding = 2
    /\ dcfOutcome.discountedPerpetuityValue = Rat(2, 1024)
    /\ dcfOutcome.totalDiscountedFcf = Rat(1023 + 31, 1024)
    /\ dcfOutcome.totalEquityValue = Rat(1023 + 31 + 2, 1024)
    /\ dcfOutcome.intrinsicValuePerShare = Rat(1023 + 31 + 2, 2048)

-----------------------------------------------------------------------------
(* Claims about zero and negative projections and about the divisors *)

AllProjections(P(_)) ==
    \A n \in 1..Len(dcfInputs.fcfProjections) : P(dcfInputs.fcfProjections[n])

IsZero(v) == v = 0

IsNegative(v) == v < 0

\* C12: when all 10 projections are 0 and the rates and the share count pass
\* the validation, every field of the result is exactly 0.
C12_ZeroProjectionsGiveZero ==
    dcfOutcome.status = "ok" /\ AllProjections(IsZero) =>
        /\ \A n \in 1..10 : dcfOutcome.discountedFcfs[n] = Num(0)
        /\ dcfOutcome.totalDiscountedFcf = Num(0)
        /\ dcfOutcome.perpetuityValue = Num(0)
        /\ dcfOutcome.discountedPerpetuityValue = Num(0)
        /\ dcfOutcome.totalEquityValue = Num(0)
        /\ dcfOutcome.intrinsicValuePerShare = Num(0)

\* C13: when all 10 projections are negative and the rates and the share
\* count pass the validation, intrinsicValuePerShare is negative (a negative
\* number or -Infinity; NaN is not negative).
C13_NegativeProjectionsGiveNegative ==
    dcfOutcome.status = "ok" /\ AllProjections(IsNegative) =>
        dcfOutcome.intrinsicValuePerShare.n < 0

\* The divisors of the call: discountFactor of year n in discountCashFlows,
\* (r - g) and discountFactor in calculatePerpetuityValue, sharesOutstanding
\* in calculatePerShareValue.
DiscountFactor(n) == Pow(Add(Num(1), Rat(dcfInputs.discountRate, 100)), n)

RateSpread ==
    Sub(Rat(dcfInputs.discountRate, 100), Rat(dcfInputs.perpetualGrowthRate, 100))

\* C14: for every input that passes the three validation rules no divisor of
\* the call is zero: (1 + R/100)^n for n in 1..10, R/100 - g/100 and
\* sharesOutstanding.
C14_NoDivisionByZero ==
    dcfOutcome.status = "ok" =>
        /\ \A n \in 1..10 : DiscountFactor(n) # Num(0)
        /\ RateSpread # Num(0)
        /\ Num(dcfInputs.sharesOutstanding) # Num(0)

\* C15: for 10 projections, shares > 0 and R > g > -100 the call returns,
\* and its intrinsicValuePerShare is a finite number.
C15_FiniteForValidRates ==
    (/\ dcfOutcome # Pending
     /\ Len(dcfInputs.fcfProjections) = 10
     /\ dcfInputs.sharesOutstanding > 0
     /\ dcfInputs.discountRate > dcfInputs.perpetualGrowthRate
     /\ dcfInputs.perpetualGrowthRate > -100)
    => /\ dcfOutcome.status = "ok"
       /\ IsNumber(dcfOutcome.intrinsicValuePerShare)
       /\ IsFinite(dcfOutcome.intrinsicValuePerShare)

\* x > y for finite numbers, by cross-multiplication.
Greater(x, y) == IsFinite(x) /\ IsFinite(y) /\ x.n * y.d > y.n * x.d

-----------------------------------------------------------------------------
(* Claims about the cells of generateSensitivityAnalysis *)

\* The cell of the returned matrix for the rates d and g.
Cell(d, g) == sensOutcome.matrix[Label(d)][Label(g)]

\* c is v rounded to 2 decimal places as Math.round(v * 100) / 100 does: c is
\* k/100 for the whole number k with k - 1/2 <= 100 * v < k + 1/2 (a tie goes
\* up); a value that is not finite stays as it is.
IsRoundedToCents(c, v) ==
    IF ~IsFinite(v) THEN c = v
    ELSE /\ IsFinite(c)
         /\ 100 % c.d = 0
         /\ LET k == c.n * (100 \div c.d)
            IN  /\ (2 * k - 1) * v.d <= 200 * v.n
                /\ 200 * v.n < (2 * k + 1) * v.d

\* C17: for every rate pair on which calculateDCFValuation succeeds the cell
\* is that call's intrinsicValuePerShare rounded to 2 decimal places, positive
\* or negative.
C17_CellsRoundedToCents ==
    sensOutcome # Pending =>
        /\ sensOutcome.status = "ok"
        /\ \A i \in 1..Len(sensInputs.discountRates) :
           \A j \in 1..Len(sensInputs.growthRates) :
               LET d == sensInputs.discountRates[i]
                   g == sensInputs.growthRates[j]
                   calc == CellCalc(d, g)
               IN  calc.status = "ok" =>
                       IsRoundedToCents(Cell(d, g), calc.intrinsicValuePerShare)

\* C17 witness: ten projections of -2 on 3 shares at R = 50: -4/3 per share at
\* g = 0 is stored as -1.33, and the value at g = -200 as -1.31.
C17_Witness ==
    /\ sensOutcome # Pending
    /\ sensInputs.fcfProjections = FcfVector(-2, -2, 0, 10)
    /\ sensInputs.sharesOutstanding = 3
    /\ sensInputs.discountRates = <<50>>
    /\ sensInputs.growthRates = <<0, -200>>
    /\ CellCalc(50, 0).intrinsicValuePerShare = Rat(-4, 3)
    /\ Cell(50, 0) = Rat(-133, 100)
    /\ Cell(50, -200) = Rat(-131, 100)

\* c >= 0: a finite number that is not negative, or Infinity; NaN is not.
IsNonNegative(c) == c.n > 0 \/ (c.n = 0 /\ IsFinite(c))

\* C18: for all-positive projections, a positive share count, positive
\* discount rates and non-negative growth rates every cell of the returned
\* matrix is >= 0.
C18_CellsNonNegative ==
    (/\ sensOutcome # Pending
     /\ \A n \in 1..Len(sensInputs.fcfProjections) : sensInputs.fcfProjections[n] > 0
     /\ sensInputs.sharesOutstanding > 0
     /\ \A i \in 1..Len(sensInputs.discountRates) : sensInputs.discountRates[i] > 0
     /\ \A j \in 1..Len(sensInputs.growthRates) : sensInputs.growthRates[j] >= 0)
    => /\ sensOutcome.status = "ok"
       /\ \A i \in 1..Len(sensInputs.discountRates) :
          \A j \in 1..Len(sensInputs.growthRates) :
              IsNonNegative(Cell(sensInputs.discountRates[i], sensInputs.growthRates[j]))

\* C18 witness: ten projections of 3 on 3 shares at R = 50: 2 per share at
\* g = 0, and the 0 of the rejected pair g = 50.
C18_Witness ==
    /\ sensOutcome # Pending
    /\ sensInputs.fcfProjections = FcfVector(3, 3, 0, 10)
    /\ sensInputs.sharesOutstanding = 3
    /\ sensInputs.discountRates = <<50>>
    /\ sensInputs.growthRates = <<0, 50>>
    /\ Cell(50, 0) = Num(2)
    /\ Cell(50, 50) = Num(0)

-----------------------------------------------------------------------------
(* Claims about the length and the zero growth of projectFCFWithGrowth *)

\* C19: the returned sequence has exactly `years` elements for every
\* non-negative integer `years` and exactly 10 when `years` is omitted; its
\* first element is the grown baseFcf, not baseFcf prepended.
C19_ProjectionLength ==
    projOutcome # Pending =>
        /\ projInputs.years = Omitted => Len(projOutcome.projections) = 10
        /\ projInputs.years # Omitted /\ projInputs.years.value >= 0 =>
               Len(projOutcome.projections) = projInputs.years.value
        /\ Len(projOutcome.projections) >= 1 =>
               projOutcome.projections[1] =
                   Num(GrownAndRounded(projInputs.baseFcf, projInputs.growthRate))

\* C19 witnesses: 3 grown at 100% with `years` omitted gives 10 elements from
\* 6 to 3072; `years` = 0 gives none.
C19_Witness ==
    /\ projOutcome # Pending
    /\ projInputs.baseFcf = 3
    /\ projInputs.growthRate = 100
    /\ projInputs.years = Omitted
    /\ Len(projOutcome.projections) = 10
    /\ projOutcome.projections[1] = Num(6)
    /\ projOutcome.projections[10] = Num(3072)

\* C20: with a growth rate of 0 the result is the constant sequence of the
\* requested length whose every element is the base.
C20_ZeroGrowthConstant ==
    (/\ projOutcome # Pending
     /\ projInputs.growthRate = 0
     /\ projInputs.years = Omitted \/ projInputs.years.value >= 0)
    => LET n == IF projInputs.years = Omitted THEN 10 ELSE projInputs.years.value
       IN  projOutcome.projections = [k \in 1..n |-> Num(projInputs.baseFcf)]

\* C20 witness: -3 at 0% over 4 years.
C20_Witness ==
    /\ projOutcome # Pending
    /\ projInputs.baseFcf = -3
    /\ projInputs.growthRate = 0
    /\ projInputs.years = [value |-> 4]
    /\ projOutcome.projections = <<Num(-3), Num(-3), Num(-3), Num(-3)>>

-----------------------------------------------------------------------------
(* Claims about the quick price update of getCompany *)

\* Request p stands on the quick path of getCompany.
OnQuickPath(p) == pc[p] \in {"fetch_price", "update_price"}

\* This step is a step of request p.
StepOf(p) == pc'[p] # pc[p] \/ view'[p] # view[p]

\* Everything the quick path must leave alone besides the company row: the
\* statement rows, the sectors and industries, and the full data sets served.
QuickPathFrame(p) ==
    /\ dbStatements' = dbStatements
    /\ dbSectors' = dbSectors
    /\ dbIndustries' = dbIndustries
    /\ fullData' = fullData
    /\ fetchCount' = fetchCount

-----------------------------------------------------------------------------
(* Claims about calculator failures in the valuation handlers *)

\* The messages of the three Errors calculateDCFValuation throws.
CalculatorMessages == {ErrProjectionCount, ErrRateRelationship, ErrShareCount}

\* Request p was answered out of a failure of calculateDCFValuation: the
\* answer carries the message of the Error it threw.
CalculatorFailed(p) ==
    /\ valResponse[p] # Null
    /\ "message" \in DOMAIN valResponse[p]
    /\ valResponse[p].message \in CalculatorMessages

\* C22: whenever calculateDCFValuation fails inside createValuation or
\* updateValuation the response is a client error (4xx) naming the failed
\* invariant, never a server error (5xx).
C22_CalculatorFailureIsClientError ==
    \A p \in ValProcs :
        CalculatorFailed(p) => valResponse[p].status \in 400..499

-----------------------------------------------------------------------------
(* Claims about the triggers of a full refresh *)

\* The policy has decided on a stored company with both dates recorded.
DecidedOnDatedCompany ==
    /\ policyDecision # Pending
    /\ policyCompany # Null
    /\ policyCompany.nextEarnings # Null
    /\ policyCompany.lastFullFetch # Null

-----------------------------------------------------------------------------
(* Claims about searchCompany *)

\* C24: searchCompany queries the database first and calls the Yahoo search
\* only when that query returned no row, which is when no company matches;
\* when the query returned at least one row the request is answered 200 with
\* exactly those rows and Yahoo is not called.
C24_DatabaseBeforeYahoo ==
    /\ yahooSearches # <<>> =>
           /\ dbResults # Unread
           /\ dbResults.rows = {}
           /\ matchingCompanies(term) = {}
           /\ yahooSearches = <<term>>
    /\ dbResults # Unread /\ dbResults.rows # {} =>
           /\ dbResults.rows \subseteq matchingCompanies(term)
           /\ yahooSearches = <<>>
           /\ searchPc = "done"
           /\ searchResponse = SearchAnswer(200, dbResults.rows)

\* C24 witness: eleven companies match the empty term; ten of them are the
\* response and Yahoo has not been called.
C24_Witness ==
    /\ searchCompanies = ManyCompanies
    /\ term = <<>>
    /\ searchPc = "done"
    /\ Cardinality(dbResults.rows) = SearchLimit
    /\ searchResponse = SearchAnswer(200, dbResults.rows)
    /\ yahooSearches = <<>>

-----------------------------------------------------------------------------
(* Claims about the record a full refresh leaves *)

\* Request p takes this step out of getCompany's refresh decision.
DecidesRefresh(p) == pc[p] = "idle" /\ pc'[p] \in {"fetch_full", "fetch_price"}

\* The stored company was written by a full refresh with a next earnings
\* date, and the clock still stands at the time of that refresh.
FreshlyRefreshed ==
    /\ dbCompany # Null
    /\ dbCompany.nextEarnings # Null
    /\ dbCompany.lastFullFetch = Clock

-----------------------------------------------------------------------------
(* Claims about the stored valuations *)

\* The derived columns of a row are what the calculator gives on the row's
\* own input columns, and those inputs satisfy the calculator's invariants.
SelfConsistent(row) ==
    /\ row.discountRate > row.perpetualGrowthRate
    /\ row.sharesOutstanding > 0
    /\ calculateDCFValuation(InputsOf(row)).status = "ok"
    /\ row.derived = derivedColumns(calculateDCFValuation(InputsOf(row)))

\* C26: after any interleaving of createValuation and updateValuation
\* requests, two concurrent updates of one valuation included, every stored
\* valuation is self-consistent.
C26_StoredValuationsSelfConsistent ==
    \A row \in valuations : SelfConsistent(row)

-----------------------------------------------------------------------------
(* Claims about concurrent full refreshes *)

\* Request p found the company, fetched a full data set and committed its
\* refresh.
Refreshed(p) ==
    /\ pc[p] = "done"
    /\ existing[p] # Null
    /\ fullData[p] # Null
    /\ response[p].status = 200

\* The statement rows of the company are exactly the rows of the fetch of
\* request r, in all three tables.
StatementsOfFetchOf(r, companyId) ==
    \A k \in Kinds :
        RowsOf(dbStatements[k], companyId) =
            {[companyId |-> companyId, fetch |-> fullData[r].id]}

\* C27: when two getCompany requests of the same stale company have both done
\* a full refresh, the stored statement rows of the company are exactly the
\* rows of one of the two fetches: none of the other fetch is left, none is
\* missing.
C27_ConcurrentRefreshesKeepOneFetch ==
    \A p \in Procs : \A q \in Procs \ {p} :
        Refreshed(p) /\ Refreshed(q) =>
            \E r \in {p, q} : StatementsOfFetchOf(r, existing[p].id)

\* C27 witness: both requests read the stale company before either
\* committed, both refreshed it, and the rows of the second fetch are stored.
C27_Witness ==
    /\ Refreshed(1) /\ Refreshed(2)
    /\ existing[1].fetch = 0 /\ existing[2].fetch = 0
    /\ StatementsOfFetchOf(2, 0)


\* Request p found no company and went on to insertCompanyWithFullData.
OnInsertPath(p) == existing[p] = Null /\ fullData[p] # Null

\* The requests whose INSERT of the company row was committed.
Inserters ==
    {p \in Procs : OnInsertPath(p) /\ pc[p] = "done" /\ response[p].status = 200}

\* The statement rows in the database that request p fetched.
StoredRowsOf(p) ==
    UNION {{r \in dbStatements[k] : r.fetch = fullData[p].id} : k \in Kinds}

\* C28: of the getCompany requests that found the ticker missing, at most one
\* gets its company row committed; every stored statement row references the
\* one company row of the ticker; a request that lost stores no statement
\* rows of its own.
C28_ConcurrentInsertsKeepOneCompany ==
    /\ Cardinality(Inserters) <= 1
    /\ \A k \in Kinds : \A r \in dbStatements[k] :
           dbCompany # Null /\ r.companyId = dbCompany.id
    /\ \A p \in Procs :
           OnInsertPath(p) /\ pc[p] = "failed" => StoredRowsOf(p) = {}

\* C28 witness: both requests found the ticker missing and fetched; the one
\* that fetched second has its company and statements stored, the other one
\* was answered 500.
C28_Witness ==
    /\ OnInsertPath(1) /\ OnInsertPath(2)
    /\ Inserters = {2}
    /\ fullData[2].id = 2
    /\ pc[1] = "failed" /\ response[1].status = 500
    /\ dbCompany # Null /\ dbCompany.id = 2
    /\ StoredRowsOf(2) # {}

-----------------------------------------------------------------------------
(* Claims about a failed full refresh *)

\* Some request called insertCompanyWithFullData or updateCompanyWithFullData,
\* and every such call has failed.
OnlyFailedRefreshes ==
    /\ \E p \in Procs : fullData[p] # Null
    /\ \A p \in Procs : fullData[p] # Null => pc[p] = "failed"

\* The company, statement, sector and industry rows are those of the start:
\* no row of a fetch of this run is stored.
DatabaseAsBefore ==
    /\ dbCompany # Null => dbCompany.fetch = 0
    /\ \A k \in Kinds : \A r \in dbStatements[k] : r.fetch = 0
    /\ dbSectors = {}
    /\ dbIndustries = {}

\* C29: when insertCompanyWithFullData or updateCompanyWithFullData has
\* failed, the database is as it was before the call: no company, statement,
\* sector or industry row of the failed call remains.
C29_FailedRefreshLeavesNothing == OnlyFailedRefreshes => DatabaseAsBefore

-----------------------------------------------------------------------------
(* Claims about the valuations of another company *)

IdHandlers ==
    {"getValuationById", "updateValuation", "deleteValuation", "getSensitivityAnalysis"}

\* The request names a company by its ticker and the id of a stored
\* valuation of another company.
ForeignRequest(request) ==
    /\ request # Null
    /\ request.handler \in IdHandlers
    /\ passesValidation(request)
    /\ selectCompany(request.ticker) # Null
    /\ \E v \in valuations :
           v.id = request.id /\ v.companyId # selectCompany(request.ticker).id

\* C30: getValuationById, updateValuation, deleteValuation and
\* getSensitivityAnalysis, called with a ticker and the id of a valuation of
\* another company, leave every valuation unchanged at every step and answer
\* 404 "Valuation not found" (500 when the database fails), never a row.
C30_ForeignValuationUntouched ==
    [][\A p \in ValProcs :
          valPc'[p] # valPc[p] /\ ForeignRequest(valRequest'[p]) =>
              /\ valuations' = valuations
              /\ valPc'[p] = "done" =>
                     valResponse'[p] = Answer(404, ErrValuationNotFound)
              /\ valPc'[p] = "failed" => valResponse'[p].status = 500]_vars

\* C30 witness: updateValuation and deleteValuation of company AAA were
\* called with valuation 2 of company BBB; both were answered 404 and the
\* valuation is stored as before.
C30_Witness ==
    /\ valRequest[1] = ValuationRequest("deleteValuation", "AAA", 2, NoChange)
    /\ valRequest[2] # Null
    /\ valRequest[2].handler = "updateValuation" /\ valRequest[2].id = 2
    /\ \A p \in ValProcs :
           valPc[p] = "done" /\ valResponse[p] = Answer(404, ErrValuationNotFound)
    /\ StoredValuation(2, 2) \in valuations

=============================================================================
